---------------------------- MODULE Spec2Model ----------------------------
(***************************************************************************)
(* Fleet fuel accounting (kargo-takip-system): the fuel (yakit), weight    *)
(* (agirlik) and vehicle (araclar) tables and the read-only aggregations   *)
(* computed over them: hesapla_gercek_km (true distance),                  *)
(* get_arac_performans_analizi, get_muhasebe_data, the compare and         *)
(* performance handlers and the fleet prediction of analyze.               *)
(*                                                                         *)
(* Conventions.  A table is the sequence of its rows in insertion order,   *)
(* so a row's position is its id.  Dates are ISO strings in the program    *)
(* and are compared as strings; they are naturals here, in the same order. *)
(* A column value is a tagged cell: SQL NULL / Python None, a number, or a *)
(* text that does not parse as a number.  Turkish literals are written in  *)
(* ASCII: "BIZIM" is the owner OWN, "TASERON" is SUBCONTRACTOR,            *)
(* "KARGO ARACI" is the type CARGO, "BINEK ARAC" is PASSENGER.  Money and  *)
(* revenue are kept in tenths so that the factor 0.5 is the integer 5.     *)
(***************************************************************************)
EXTENDS Integers, Sequences, FiniteSets, TLC

VARIABLES yakit, agirlik, araclar, araclar_exists, result, acik

vars == <<yakit, agirlik, araclar, araclar_exists, result, acik>>

(***************************************************************************)
(* Bounds of the model.                                                    *)
(***************************************************************************)
MaxYakit == 3

MaxOrnek == 4

MaxPerfYakit == 2

MaxPerfAgirlik == 1

MaxMuhYakit == 2

MaxMuhAgirlik == 2

MaxFiltreYakit == 2

MaxFiltreAgirlik == 1

MaxKarYakit == 2

MaxHataYakit == 2

MaxAnalizYakit == 3

MaxEsYakit == 2

MaxEsYazma == 2

MaxAracYakit == 2
MaxSifirYakit == 2
MaxSifirAgirlik == 1
MaxSiraYakit == 3
MaxSinirYakit == 2
MaxSinirAgirlik == 1
MaxKayit == 5
batch_size == 2

(***************************************************************************)
(* Cells.                                                                  *)
(***************************************************************************)
Null == [t |-> "null", v |-> 0]

Sayi(n) == [t |-> "num", v |-> n]

Metin == [t |-> "text", v |-> 0]

Eksik == [t |-> "missing", v |-> 0]

Yok == <<>>

BirimNull == [t |-> "null", s |-> ""]

Birim(s) == [t |-> "text", s |-> s]

Plakalar == {"46AJH283", "34KRG34"}

Tarihler == {1, 2}

Tarihler3 == {1, 2, 3}

RECURSIVE SeqSum(_)
SeqSum(s) == IF s = <<>> THEN 0 ELSE Head(s) + SeqSum(Tail(s))

(***************************************************************************)
(* ORDER BY islem_tarihi ASC, id ASC: a stable sort by date of rows that   *)
(* are already in id order.                                                *)
(***************************************************************************)
RECURSIVE TarihSirasinaEkle(_, _)
TersBagEkle(sirali, r) ==
    IF sirali = <<>> THEN <<r>>
    ELSE IF Head(sirali).islem_tarihi < r.islem_tarihi
         THEN <<Head(sirali)>> \o TarihSirasinaEkle(Tail(sirali), r)
         ELSE <<r>> \o sirali

TarihSirasinaEkle(sirali, r) ==
    IF sirali = <<>> THEN <<r>>
    ELSE IF Head(sirali).islem_tarihi <= r.islem_tarihi
         THEN <<Head(sirali)>> \o TarihSirasinaEkle(Tail(sirali), r)
         ELSE <<r>> \o sirali

RECURSIVE OrderByTarihId(_)
OrderByTarihId(rows) ==
    IF rows = <<>> THEN <<>>
    ELSE TarihSirasinaEkle(OrderByTarihId(SubSeq(rows, 1, Len(rows) - 1)),
                           rows[Len(rows)])

(***************************************************************************)
(* SQLite's "km_bilgisi IS NOT NULL AND km_bilgisi > 0": a text cell       *)
(* compares greater than every number.                                     *)
(***************************************************************************)
SqlPozitif(c) == \/ c.t = "text"
                 \/ c.t = "num" /\ c.v > 0

KmSorgusuSifirDahil(tablo, plaka) ==
    LET Uygun(r) == r.plaka = plaka /\ r.km_bilgisi.t # "null"
    IN  OrderByTarihId(SelectSeq(tablo, Uygun))

KmSorgusuKesintili(tablo, plaka) ==
    LET Gecersiz == {i \in 1..Len(tablo) :
                        tablo[i].plaka = plaka /\ ~SqlPozitif(tablo[i].km_bilgisi)}
        bas == IF Gecersiz = {} THEN 0
               ELSE CHOOSE i \in Gecersiz : \A j \in Gecersiz : j <= i
        Uygun(r) == r.plaka = plaka /\ SqlPozitif(r.km_bilgisi)
    IN  OrderByTarihId(SelectSeq(SubSeq(tablo, bas + 1, Len(tablo)), Uygun))

KmSorgusu(tablo, plaka) ==
    LET Uygun(r) == r.plaka = plaka /\ SqlPozitif(r.km_bilgisi)
    IN  OrderByTarihId(SelectSeq(tablo, Uygun))

(***************************************************************************)
(* The walk of hesapla_gercek_km: toplam_km and onceki_km after the rows   *)
(* seen so far.  onceki_km = <<>> is Python's None.                        *)
(***************************************************************************)
SabitOncekiAdim(durum, km) ==
    IF durum.onceki_km = <<>>
    THEN [toplam_km |-> durum.toplam_km, onceki_km |-> <<km>>]
    ELSE LET fark == km - durum.onceki_km[1]
         IN  IF fark > 0
             THEN [toplam_km |-> durum.toplam_km + fark, onceki_km |-> <<km>>]
             ELSE durum

MutlakAdim(durum, km) ==
    IF durum.onceki_km = <<>>
    THEN [toplam_km |-> durum.toplam_km, onceki_km |-> <<km>>]
    ELSE LET fark == km - durum.onceki_km[1]
         IN  [toplam_km |-> durum.toplam_km + (IF fark > 0 THEN fark ELSE 0 - fark),
              onceki_km |-> <<km>>]

IsaretsizAdim(durum, km) ==
    IF durum.onceki_km = <<>>
    THEN [toplam_km |-> durum.toplam_km, onceki_km |-> <<km>>]
    ELSE [toplam_km |-> durum.toplam_km + (km - durum.onceki_km[1]),
          onceki_km |-> <<km>>]

ArdisikAdim(durum, km) ==
    IF durum.onceki_km = <<>>
    THEN [toplam_km |-> durum.toplam_km, onceki_km |-> <<km>>]
    ELSE LET fark == km - durum.onceki_km[1]
         IN  [toplam_km |-> IF fark > 0 THEN durum.toplam_km + fark
                                        ELSE durum.toplam_km,
              onceki_km |-> <<km>>]

RECURSIVE ArdisikYuru(_, _)
ArdisikYuru(rows, durum) ==
    IF rows = <<>> THEN durum
    ELSE ArdisikYuru(Tail(rows), ArdisikAdim(durum, Head(rows).km_bilgisi.v))

BasitFark(rows) ==
    IF Len(rows) < 2 THEN 0
    ELSE LET fark == rows[Len(rows)].km_bilgisi.v - rows[1].km_bilgisi.v
         IN  IF fark > 0 THEN fark ELSE 0

ArdisikFarklarToplami(rows) ==
    IF Len(rows) < 2 THEN 0
    ELSE ArdisikYuru(rows, [toplam_km |-> 0, onceki_km |-> <<>>]).toplam_km

hesapla_gercek_km(tablo, plaka) == ArdisikFarklarToplami(KmSorgusu(tablo, plaka))

(***************************************************************************)
(* The date-ranged true_distance(plate, start_date?, end_date?) that the   *)
(* handlers call with three arguments: the same query, restricted to       *)
(* start_date <= islem_tarihi <= end_date for the bounds that are given,   *)
(* and the same walk.  A bound is <<>> when absent, <<d>> when given.       *)
(***************************************************************************)
AcikAralikta(t, bas, bit) ==
    /\ bas # Yok => bas[1] < t
    /\ bit # Yok => t <= bit[1]

TarihAraliginda(t, bas, bit) ==
    /\ bas # Yok => bas[1] <= t
    /\ bit # Yok => t <= bit[1]

KmSorgusuTarihli(tablo, plaka, bas, bit) ==
    LET Uygun(r) == /\ r.plaka = plaka
                    /\ SqlPozitif(r.km_bilgisi)
                    /\ TarihAraliginda(r.islem_tarihi, bas, bit)
    IN  OrderByTarihId(SelectSeq(tablo, Uygun))

hesapla_gercek_km_tarihli(tablo, plaka, bas, bit) ==
    ArdisikFarklarToplami(KmSorgusuTarihli(tablo, plaka, bas, bit))

(***************************************************************************)
(* Rows a specification inserts.                                           *)
(***************************************************************************)
YakitSatiri(p, t, km, miktar, tutar) ==
    [plaka |-> p, islem_tarihi |-> t, km_bilgisi |-> km,
     yakit_miktari |-> miktar, satir_tutari |-> tutar]

KmSatirlari ==
    { YakitSatiri(p, t, km, Sayi(1), Sayi(1)) :
        p \in Plakalar, t \in Tarihler,
        km \in {Null, Sayi(0), Sayi(1), Sayi(3), Sayi(6)} }

BosSonuc == [op |-> "none"]

Init ==
    /\ yakit = <<>>
    /\ agirlik = <<>>
    /\ araclar = {}
    /\ araclar_exists = TRUE
    /\ result = BosSonuc
    /\ acik = 0

(***************************************************************************)
(* Store connections.  Every function of the SQLite layer opens one        *)
(* connection with get_db_connection().  A function leaves by "return" or, *)
(* when a query raises, by "raise"; the set below names the exits on which *)
(* it has called conn.close().  hesapla_gercek_km closes in a finally      *)
(* block; the others close after their last query and return from their    *)
(* except block without closing.  acik counts the connections that the     *)
(* request being answered has opened and not closed.                       *)
(***************************************************************************)
hesapla_gercek_km_kapatir == {"return", "raise"}

get_muhasebe_data_kapatir == {"return"}

get_arac_performans_analizi_kapatir == {"return"}

get_aktif_kargo_araclari_kapatir == {"return"}

arac_islemi_kapatir == {"return"}

AcikKalan(kapatir, yol) == IF yol \in kapatir THEN 0 ELSE 1

Yol(sonuc) == IF sonuc.status = "error" THEN "raise" ELSE "return"

(***************************************************************************)
(* Requests are served one at a time: a request starts when no response is *)
(* pending, leaves its response in result, and Teslim hands it over.       *)
(***************************************************************************)
Teslim ==
    /\ result # BosSonuc
    /\ result' = BosSonuc
    /\ acik' = 0
    /\ UNCHANGED <<yakit, agirlik, araclar, araclar_exists>>

(***************************************************************************)
(* One batch of one row inserted into yakit.                               *)
(***************************************************************************)
InsertYakit(Satirlar, limit) ==
    /\ result = BosSonuc
    /\ Len(yakit) < limit
    /\ \E r \in Satirlar : yakit' = Append(yakit, r)
    /\ result' = BosSonuc
    /\ UNCHANGED <<agirlik, araclar, araclar_exists, acik>>

CallHesaplaGercekKm ==
    /\ result = BosSonuc
    /\ \E p \in Plakalar :
          result' = [op |-> "hesapla_gercek_km", plaka |-> p,
                     deger |-> hesapla_gercek_km(yakit, p)]
    /\ acik' = AcikKalan(hesapla_gercek_km_kapatir, "return")
    /\ UNCHANGED <<yakit, agirlik, araclar, araclar_exists>>

YukleKm == InsertYakit(KmSatirlari, MaxYakit)

NextKm == YukleKm \/ CallHesaplaGercekKm \/ Teslim

SpecKm == Init /\ [][NextKm]_vars

(***************************************************************************)
(* The qualifying readings of a plate, as positions of the fuel table, and *)
(* the order (transaction date, then id) between two positions.            *)
(***************************************************************************)
Nitelikli(tablo, p) ==
    { i \in 1..Len(tablo) :
        /\ tablo[i].plaka = p
        /\ tablo[i].km_bilgisi.t = "num"
        /\ tablo[i].km_bilgisi.v > 0 }

Once(tablo, i, j) ==
    \/ tablo[i].islem_tarihi < tablo[j].islem_tarihi
    \/ tablo[i].islem_tarihi = tablo[j].islem_tarihi /\ i < j

Komsu(tablo, p, i, j) ==
    /\ Once(tablo, i, j)
    /\ ~ \E k \in Nitelikli(tablo, p) : Once(tablo, i, k) /\ Once(tablo, k, j)

Fark(tablo, c) == tablo[c[2]].km_bilgisi.v - tablo[c[1]].km_bilgisi.v

RECURSIVE FarkToplami(_, _)
FarkToplami(tablo, Ciftler) ==
    IF Ciftler = {} THEN 0
    ELSE LET c == CHOOSE d \in Ciftler : TRUE
         IN  Fark(tablo, c) + FarkToplami(tablo, Ciftler \ {c})

PozitifKomsuFarklari(tablo, p) ==
    LET Q == Nitelikli(tablo, p)
    IN  FarkToplami(tablo, { c \in Q \X Q :
                               Komsu(tablo, p, c[1], c[2]) /\ Fark(tablo, c) > 0 })

(***************************************************************************)
(* C1: hesapla_gercek_km returns exactly the sum of cur - prev over the    *)
(* pairs of the plate's qualifying readings that are consecutive in        *)
(* ascending transaction date, ties in insertion (id) order, and have      *)
(* cur - prev > 0.                                                         *)
(***************************************************************************)
C1_PozitifFarklarToplami ==
    result.op = "hesapla_gercek_km"
        => result.deger = PozitifKomsuFarklari(yakit, result.plaka)

C1_Witness ==
    /\ result.op = "hesapla_gercek_km"
    /\ result.deger > 0
    /\ \E i, j \in Nitelikli(yakit, result.plaka) :
          /\ i < j
          /\ yakit[j].islem_tarihi < yakit[i].islem_tarihi
    /\ \E i, j \in Nitelikli(yakit, result.plaka) :
          /\ Komsu(yakit, result.plaka, i, j)
          /\ yakit[i].islem_tarihi = yakit[j].islem_tarihi
          /\ Fark(yakit, <<i, j>>) < 0

(***************************************************************************)
(* The readings of the specification's worked examples, for one plate,     *)
(* uploaded in chronological order over three days.                        *)
(***************************************************************************)
OrnekPlaka == "46AJH283"

OrnekKm == {50, 100, 250, 300, 10000, 10100, 10150, 10400}

OrnekSatirlari ==
    { YakitSatiri(OrnekPlaka, IF Len(yakit) < 2 THEN Len(yakit) + 1 ELSE Len(yakit),
                  Sayi(km), Sayi(1), Sayi(1)) : km \in OrnekKm }

YukleOrnek == InsertYakit(OrnekSatirlari, MaxOrnek)

NextOrnek == YukleOrnek \/ CallHesaplaGercekKm \/ Teslim

SpecOrnek == Init /\ [][NextOrnek]_vars

Okumalar(tablo, p) ==
    LET rows == KmSorgusu(tablo, p)
    IN  [i \in 1..Len(rows) |-> rows[i].km_bilgisi.v]

(***************************************************************************)
(* C2: after a non-positive delta is discarded the walk goes on from the   *)
(* current reading: the readings 100, 250, 50, 300 give 400 and the        *)
(* readings 10000, 10150, 10100, 10400 give 450.                           *)
(***************************************************************************)
C2_OrnekYuruyus ==
    result.op = "hesapla_gercek_km" =>
        /\ Okumalar(yakit, result.plaka) = <<100, 250, 50, 300>>
              => result.deger = 400
        /\ Okumalar(yakit, result.plaka) = <<10000, 10150, 10100, 10400>>
              => result.deger = 450

C2_Witness ==
    /\ result.op = "hesapla_gercek_km"
    /\ Okumalar(yakit, result.plaka) = <<10000, 10150, 10100, 10400>>
    /\ result.deger = 450

(***************************************************************************)
(* The date-ranged distance over fuel rows of three days.                  *)
(***************************************************************************)
TarihSecenekleri == {Yok} \cup { <<t>> : t \in Tarihler3 }

KmTarihSatirlari ==
    { YakitSatiri(p, t, Sayi(km), Sayi(1), Sayi(1)) :
        p \in Plakalar, t \in Tarihler3, km \in {1, 3, 6} }

YukleKmTarih == InsertYakit(KmTarihSatirlari, MaxYakit)

CallHesaplaGercekKmTarihli ==
    /\ result = BosSonuc
    /\ \E p \in Plakalar, bas \in TarihSecenekleri, bit \in TarihSecenekleri :
          result' = [op |-> "hesapla_gercek_km_tarihli", plaka |-> p,
                     baslangic |-> bas, bitis |-> bit,
                     deger |-> hesapla_gercek_km_tarihli(yakit, p, bas, bit)]
    /\ UNCHANGED <<yakit, agirlik, araclar, araclar_exists, acik>>

NextKmTarih == YukleKmTarih \/ CallHesaplaGercekKmTarihli \/ Teslim

SpecKmTarih == Init /\ [][NextKmTarih]_vars

AraliktakiSatirlar(tablo, bas, bit) ==
    LET Icinde(r) == bas <= r.islem_tarihi /\ r.islem_tarihi <= bit
    IN  SelectSeq(tablo, Icinde)

(***************************************************************************)
(* C3: with a start and an end date the distance is the distance of the    *)
(* fuel table cut down to the rows with start <= islem_tarihi <= end:      *)
(* a row outside the range is neither a delta nor a baseline.              *)
(***************************************************************************)
C3_TarihAraligiDahil ==
    ( /\ result.op = "hesapla_gercek_km_tarihli"
      /\ result.baslangic # Yok
      /\ result.bitis # Yok )
        => result.deger =
             PozitifKomsuFarklari(
                 AraliktakiSatirlar(yakit, result.baslangic[1], result.bitis[1]),
                 result.plaka)

C3_Witness ==
    /\ result.op = "hesapla_gercek_km_tarihli"
    /\ result.baslangic # Yok
    /\ result.bitis # Yok
    /\ result.deger > 0
    /\ result.deger # hesapla_gercek_km(yakit, result.plaka)
    /\ \E i \in Nitelikli(yakit, result.plaka) :
          yakit[i].islem_tarihi = result.baslangic[1]
    /\ \E i \in Nitelikli(yakit, result.plaka) :
          yakit[i].islem_tarihi = result.bitis[1]

(***************************************************************************)
(* SQL aggregates over a column: SUM skips NULL and counts a text that is  *)
(* no number as 0; "x IS NOT NULL AND x > 0" is SqlPozitif.                *)
(***************************************************************************)
HucreDegeri(c) == IF c.t = "num" THEN c.v ELSE 0

RECURSIVE SqlSum(_, _)
SqlSum(rows, kolon) ==
    IF rows = <<>> THEN 0
    ELSE HucreDegeri(Head(rows)[kolon]) + SqlSum(Tail(rows), kolon)

(***************************************************************************)
(* birim NOT IN ('Adet', 'adet', 'ADET'): NULL NOT IN (...) is NULL, and a *)
(* WHERE clause keeps only the rows whose condition is true.               *)
(***************************************************************************)
AdetYazimlari == {"Adet", "adet", "ADET"}

SqlNotInAdet(b) == b.t # "null" /\ b.s \notin AdetYazimlari

(***************************************************************************)
(* "if baslangic_tarihi and bitis_tarihi": the BETWEEN filter is applied   *)
(* only when both bounds are given.                                        *)
(***************************************************************************)
IkisiDeVar(bas, bit) == bas # Yok /\ bit # Yok

TekSinirliBetween(t, bas, bit) ==
    /\ bas # Yok => bas[1] <= t
    /\ bit # Yok => t <= bit[1]

Between(t, bas, bit) == IkisiDeVar(bas, bit) => (bas[1] <= t /\ t <= bit[1])

(***************************************************************************)
(* A quotient a / b is kept as the pair <<a, b>>; 0 is <<0, 1>>.           *)
(***************************************************************************)
Sifir == <<0, 1>>

KorumasizOran(a, b) == <<a, b>>

Oran(a, b) == IF b > 0 THEN <<a, b>> ELSE Sifir

OranPozitif(q) == q[1] > 0 /\ q[2] > 0

AgirlikSatiri(p, t, net, b) ==
    [plaka |-> p, tarih |-> t, net_agirlik |-> net, birim |-> b]

PerformansYakitSorgusu(plaka, bas, bit) ==
    LET Uygun(r) == /\ r.plaka = plaka
                    /\ Between(r.islem_tarihi, bas, bit)
                    /\ SqlPozitif(r.yakit_miktari)
    IN  SelectSeq(yakit, Uygun)

PerformansAgirlikSorgusu(plaka, bas, bit) ==
    LET Uygun(r) == /\ r.plaka = plaka
                    /\ Between(r.tarih, bas, bit)
                    /\ SqlPozitif(r.net_agirlik)
                    /\ SqlNotInAdet(r.birim)
    IN  SelectSeq(agirlik, Uygun)

HataSonucu(op, message) == [op |-> op, status |-> "error", message |-> message]

SorguHatasi == "query failed"

TabloYok == "no such table: araclar"

get_arac_performans_analizi(plaka, bas, bit, hata) ==
    IF hata THEN HataSonucu("get_arac_performans_analizi", SorguHatasi)
    ELSE
    LET yakit_rows == PerformansYakitSorgusu(plaka, bas, bit)
        agirlik_rows == PerformansAgirlikSorgusu(plaka, bas, bit)
        toplam_yakit == SqlSum(yakit_rows, "yakit_miktari")
        toplam_km == SqlSum(yakit_rows, "km_bilgisi")
        toplam_maliyet == SqlSum(yakit_rows, "satir_tutari")
        toplam_tonaj == SqlSum(agirlik_rows, "net_agirlik")
        yakit_km_orani == Oran(toplam_yakit, toplam_km)
    IN  [op |-> "get_arac_performans_analizi", status |-> "success",
         plaka |-> plaka, baslangic |-> bas, bitis |-> bit, hata |-> hata,
         toplam_yakit |-> toplam_yakit,
         toplam_km |-> toplam_km,
         sefer_sayisi |-> Len(yakit_rows),
         ort_yakit_sefer |-> Oran(toplam_yakit, Len(yakit_rows)),
         toplam_maliyet |-> toplam_maliyet,
         toplam_tonaj |-> toplam_tonaj,
         yuklenme_sayisi |-> Len(agirlik_rows),
         ort_tonaj_yuklenme |-> Oran(toplam_tonaj, Len(agirlik_rows)),
         yakit_km_orani |-> yakit_km_orani,
         km_basina_maliyet |-> Oran(toplam_maliyet, toplam_km),
         ton_basina_yakit |-> Oran(toplam_tonaj, 1000 * toplam_yakit),
         verimlilik_skoru |-> IF OranPozitif(yakit_km_orani)
                              THEN <<100 * yakit_km_orani[1], yakit_km_orani[2]>>
                              ELSE Sifir]

InsertAgirlik(Satirlar, limit) ==
    /\ result = BosSonuc
    /\ Len(agirlik) < limit
    /\ \E r \in Satirlar : agirlik' = Append(agirlik, r)
    /\ result' = BosSonuc
    /\ UNCHANGED <<yakit, araclar, araclar_exists, acik>>

TarihSecenekleri2 == {Yok} \cup { <<t>> : t \in Tarihler }

PerfYakitSatirlari ==
    { YakitSatiri(p, t, km, miktar, Sayi(4)) :
        p \in Plakalar, t \in Tarihler,
        km \in {Null, Sayi(1), Sayi(3)}, miktar \in {Null, Sayi(2)} }

PerfAgirlikSatirlari ==
    { AgirlikSatiri(p, t, Sayi(2000), b) :
        p \in Plakalar, t \in Tarihler, b \in {Birim("kg"), Birim("Adet")} }

YuklePerfYakit == InsertYakit(PerfYakitSatirlari, MaxPerfYakit)

YuklePerfAgirlik == InsertAgirlik(PerfAgirlikSatirlari, MaxPerfAgirlik)

CallGetAracPerformansAnalizi ==
    /\ result = BosSonuc
    /\ \E p \in Plakalar, bas \in TarihSecenekleri2, bit \in TarihSecenekleri2,
          hata \in BOOLEAN :
          result' = get_arac_performans_analizi(p, bas, bit, hata)
    /\ acik' = AcikKalan(get_arac_performans_analizi_kapatir, Yol(result'))
    /\ UNCHANGED <<yakit, agirlik, araclar, araclar_exists>>

NextPerformans ==
    YuklePerfYakit \/ YuklePerfAgirlik \/ CallGetAracPerformansAnalizi \/ Teslim

SpecPerformans == Init /\ [][NextPerformans]_vars

(***************************************************************************)
(* C4: the total_distance (toplam_km) of get_arac_performans_analizi is    *)
(* the true distance of the plate over the date range the call applies.    *)
(***************************************************************************)
C4_ToplamKmGercekKm ==
    ( /\ result.op = "get_arac_performans_analizi"
      /\ result.status = "success" )
        => result.toplam_km =
             IF IkisiDeVar(result.baslangic, result.bitis)
             THEN hesapla_gercek_km_tarihli(yakit, result.plaka,
                                            result.baslangic, result.bitis)
             ELSE hesapla_gercek_km(yakit, result.plaka)

(***************************************************************************)
(* The vehicle table.  plaka is its unique key: a second INSERT of a plate *)
(* raises sqlite3.IntegrityError.  Without the table every statement that  *)
(* names araclar raises.                                                   *)
(***************************************************************************)
AracSatiri(p, sahip, tip, aktif, notlar) ==
    [plaka |-> p, sahip |-> sahip, arac_tipi |-> tip, aktif |-> aktif,
     notlar |-> notlar]

Sahipler == {"BIZIM", "TASERON"}

AracTipleri == {"KARGO ARACI", "BINEK ARAC"}

IslemSonucu(op, status) == [op |-> op, status |-> status]

PlakaKayitli == "plate already registered"

EklemeSonucu(p, status, message) ==
    [op |-> "add_arac", status |-> status, plaka |-> p, message |-> message]

add_arac_kisitsiz(p, sahip, tip, notlar) ==
    /\ result = BosSonuc
    /\ IF ~ araclar_exists
       THEN /\ araclar' = araclar
            /\ result' = EklemeSonucu(p, "error", TabloYok)
       ELSE /\ araclar' = araclar \cup {AracSatiri(p, sahip, tip, 1, notlar)}
            /\ result' = EklemeSonucu(p, "success", "")
    /\ acik' = AcikKalan(arac_islemi_kapatir, Yol(result'))
    /\ UNCHANGED <<yakit, agirlik, araclar_exists>>

add_arac_degistirir(p, sahip, tip, notlar) ==
    /\ result = BosSonuc
    /\ IF ~ araclar_exists
       THEN /\ araclar' = araclar
            /\ result' = EklemeSonucu(p, "error", TabloYok)
       ELSE /\ araclar' = {a \in araclar : a.plaka # p}
                              \cup {AracSatiri(p, sahip, tip, 1, notlar)}
            /\ result' = EklemeSonucu(p, "success", "")
    /\ acik' = AcikKalan(arac_islemi_kapatir, Yol(result'))
    /\ UNCHANGED <<yakit, agirlik, araclar_exists>>

add_arac(p, sahip, tip, notlar) ==
    /\ result = BosSonuc
    /\ IF ~ araclar_exists
       THEN /\ araclar' = araclar
            /\ result' = EklemeSonucu(p, "error", TabloYok)
       ELSE IF \E a \in araclar : a.plaka = p
       THEN /\ araclar' = araclar
            /\ result' = EklemeSonucu(p, "error", PlakaKayitli)
       ELSE /\ araclar' = araclar \cup {AracSatiri(p, sahip, tip, 1, notlar)}
            /\ result' = EklemeSonucu(p, "success", "")
    /\ acik' = AcikKalan(arac_islemi_kapatir, Yol(result'))
    /\ UNCHANGED <<yakit, agirlik, araclar_exists>>

update_arac(p, sahip, tip, aktif, notlar) ==
    /\ result = BosSonuc
    /\ IF ~ araclar_exists
       THEN /\ araclar' = araclar
            /\ result' = IslemSonucu("update_arac", "error")
       ELSE /\ araclar' = { IF a.plaka = p
                             THEN AracSatiri(p, sahip, tip, aktif, notlar)
                             ELSE a : a \in araclar }
            /\ result' = IslemSonucu("update_arac", "success")
    /\ acik' = AcikKalan(arac_islemi_kapatir, Yol(result'))
    /\ UNCHANGED <<yakit, agirlik, araclar_exists>>

delete_arac(p) ==
    /\ result = BosSonuc
    /\ IF ~ araclar_exists
       THEN /\ araclar' = araclar
            /\ result' = IslemSonucu("delete_arac", "error")
       ELSE /\ araclar' = { a \in araclar : a.plaka # p }
            /\ result' = IslemSonucu("delete_arac", "success")
    /\ acik' = AcikKalan(arac_islemi_kapatir, Yol(result'))
    /\ UNCHANGED <<yakit, agirlik, araclar_exists>>

(***************************************************************************)
(* get_muhasebe_data.  INNER JOIN araclar a ON plaka = a.plaka ... AND     *)
(* a.aktif = 1 AND a.arac_tipi = 'KARGO ARACI': a record row appears once  *)
(* for every vehicle row that matches it.  GROUP BY delivers the plates in *)
(* ascending order.                                                        *)
(***************************************************************************)
PlakaSirasi == <<"34KRG34", "46AJH283">>

SahipDahilEslesen(p) ==
    { a \in araclar : /\ a.plaka = p
                      /\ a.aktif = 1
                      /\ a.arac_tipi = "KARGO ARACI"
                      /\ a.sahip = "BIZIM" }

AktifKargoEslesen(p) ==
    { a \in araclar : a.plaka = p /\ a.aktif = 1 /\ a.arac_tipi = "KARGO ARACI" }

MuhasebeYakitSatirlari(p, bas, bit) ==
    LET Uygun(r) == r.plaka = p /\ Between(r.islem_tarihi, bas, bit)
    IN  SelectSeq(yakit, Uygun)

MuhasebeAgirlikSatirlari(p, bas, bit) ==
    LET Uygun(r) == /\ r.plaka = p
                    /\ Between(r.tarih, bas, bit)
                    /\ SqlNotInAdet(r.birim)
    IN  SelectSeq(agirlik, Uygun)

PlakaSecili(p, plaka) == plaka = Yok \/ plaka = <<p>>

YakitGruplari(bas, bit, plaka) ==
    LET Var(p) == /\ PlakaSecili(p, plaka)
                  /\ AktifKargoEslesen(p) # {}
                  /\ MuhasebeYakitSatirlari(p, bas, bit) # <<>>
    IN  SelectSeq(PlakaSirasi, Var)

AgirlikGruplari(bas, bit, plaka) ==
    LET Var(p) == /\ PlakaSecili(p, plaka)
                  /\ AktifKargoEslesen(p) # {}
                  /\ MuhasebeAgirlikSatirlari(p, bas, bit) # <<>>
    IN  SelectSeq(PlakaSirasi, Var)

SeqUyeleri(q) == { q[i] : i \in 1..Len(q) }

KorumasizPlakaVerisi(p, bas, bit, yg, ag) ==
    LET gelir == IF p \in SeqUyeleri(ag)
                 THEN 5 * SqlSum(MuhasebeAgirlikSatirlari(p, bas, bit), "net_agirlik")
                        * Cardinality(AktifKargoEslesen(p))
                 ELSE 0
        gider == IF p \in SeqUyeleri(yg)
                 THEN 10 * SqlSum(MuhasebeYakitSatirlari(p, bas, bit), "satir_tutari")
                         * Cardinality(AktifKargoEslesen(p))
                 ELSE 0
    IN  [plaka |-> p, gelir |-> gelir, gider |-> gider,
         net_kar |-> gelir - gider,
         kar_marji |-> <<(gelir - gider) * 100, gelir>>]

PlakaVerisi(p, bas, bit, yg, ag) ==
    LET gelir == IF p \in SeqUyeleri(ag)
                 THEN 5 * SqlSum(MuhasebeAgirlikSatirlari(p, bas, bit), "net_agirlik")
                        * Cardinality(AktifKargoEslesen(p))
                 ELSE 0
        gider == IF p \in SeqUyeleri(yg)
                 THEN 10 * SqlSum(MuhasebeYakitSatirlari(p, bas, bit), "satir_tutari")
                         * Cardinality(AktifKargoEslesen(p))
                 ELSE 0
    IN  [plaka |-> p, gelir |-> gelir, gider |-> gider,
         net_kar |-> gelir - gider,
         kar_marji |-> IF gelir > 0 THEN <<(gelir - gider) * 100, gelir>> ELSE Sifir]

(***************************************************************************)
(* plaka_bazli.sort(key = net_kar, reverse = True): stable, so entries of  *)
(* equal net_kar keep the order of the dictionary.                         *)
(***************************************************************************)
RECURSIVE NetKarSirasinaEkle(_, _)
ArtanSirayaEkle(sirali, e) ==
    IF sirali = <<>> THEN <<e>>
    ELSE IF Head(sirali).net_kar <= e.net_kar
         THEN <<Head(sirali)>> \o NetKarSirasinaEkle(Tail(sirali), e)
         ELSE <<e>> \o sirali

NetKarSirasinaEkle(sirali, e) ==
    IF sirali = <<>> THEN <<e>>
    ELSE IF Head(sirali).net_kar >= e.net_kar
         THEN <<Head(sirali)>> \o NetKarSirasinaEkle(Tail(sirali), e)
         ELSE <<e>> \o sirali

RECURSIVE NetKaraGoreSirala(_)
NetKaraGoreSirala(q) ==
    IF q = <<>> THEN <<>>
    ELSE NetKarSirasinaEkle(NetKaraGoreSirala(SubSeq(q, 1, Len(q) - 1)), q[Len(q)])

RECURSIVE AlanToplami(_, _)
AlanToplami(q, alan) ==
    IF q = <<>> THEN 0 ELSE Head(q)[alan] + AlanToplami(Tail(q), alan)

get_muhasebe_data(bas, bit, plaka, hata) ==
    IF hata THEN HataSonucu("get_muhasebe_data", SorguHatasi)
    ELSE IF ~ araclar_exists THEN HataSonucu("get_muhasebe_data", TabloYok)
    ELSE
    LET yg == YakitGruplari(bas, bit, plaka)
        ag == AgirlikGruplari(bas, bit, plaka)
        Yeni(p) == p \notin SeqUyeleri(yg)
        anahtarlar == yg \o SelectSeq(ag, Yeni)
        plaka_veriler == [i \in 1..Len(anahtarlar) |->
                             PlakaVerisi(anahtarlar[i], bas, bit, yg, ag)]
        toplam_gelir == AlanToplami(plaka_veriler, "gelir")
        toplam_gider == AlanToplami(plaka_veriler, "gider")
        net_kar == toplam_gelir - toplam_gider
    IN  [op |-> "get_muhasebe_data", status |-> "success",
         baslangic |-> bas, bitis |-> bit, plaka |-> plaka, hata |-> hata,
         toplam_gelir |-> toplam_gelir,
         toplam_gider |-> toplam_gider,
         net_kar |-> net_kar,
         kar_marji |-> IF toplam_gelir > 0 THEN <<net_kar * 100, toplam_gelir>>
                                           ELSE Sifir,
         plaka_bazli |-> NetKaraGoreSirala(plaka_veriler)]

(***************************************************************************)
(* Accounting over fuel and weight rows of two days, for registered active *)
(* cargo vehicles.                                                         *)
(***************************************************************************)
MuhYakitSatirlari ==
    { YakitSatiri(p, t, Sayi(1), Sayi(1), tutar) :
        p \in Plakalar, t \in Tarihler, tutar \in {Null, Sayi(3)} }

MuhAgirlikSatirlari ==
    { AgirlikSatiri(p, t, Sayi(2), b) :
        p \in Plakalar, t \in Tarihler,
        b \in {Birim("kg"), Birim("Adet"), BirimNull} }

YukleMuhYakit == InsertYakit(MuhYakitSatirlari, MaxMuhYakit)

YukleMuhAgirlik == InsertAgirlik(MuhAgirlikSatirlari, MaxMuhAgirlik)

KargoAraciEkle == \E p \in Plakalar : add_arac(p, "BIZIM", "KARGO ARACI", "")

CallGetMuhasebeData ==
    /\ result = BosSonuc
    /\ \E bas \in {Yok, <<2>>}, bit \in {Yok, <<2>>},
          plaka \in {Yok, <<OrnekPlaka>>}, hata \in BOOLEAN :
          result' = get_muhasebe_data(bas, bit, plaka, hata)
    /\ acik' = AcikKalan(get_muhasebe_data_kapatir, Yol(result'))
    /\ UNCHANGED <<yakit, agirlik, araclar, araclar_exists>>

NextMuhasebe ==
    \/ YukleMuhYakit
    \/ YukleMuhAgirlik
    \/ KargoAraciEkle
    \/ CallGetMuhasebeData
    \/ Teslim

SpecMuhasebe == Init /\ [][NextMuhasebe]_vars

RECURSIVE IndisToplami(_, _, _)
IndisToplami(tablo, I, kolon) ==
    IF I = {} THEN 0
    ELSE LET i == CHOOSE j \in I : TRUE
         IN  HucreDegeri(tablo[i][kolon]) + IndisToplami(tablo, I \ {i}, kolon)

SayimBirimi(b) == b.t = "text" /\ b.s \in AdetYazimlari

UrunAgirliklari(p, bas, bit) ==
    { i \in 1..Len(agirlik) :
        /\ agirlik[i].plaka = p
        /\ Between(agirlik[i].tarih, bas, bit)
        /\ ~ SayimBirimi(agirlik[i].birim) }

PlakaYakitlari(p, bas, bit) ==
    { i \in 1..Len(yakit) :
        yakit[i].plaka = p /\ Between(yakit[i].islem_tarihi, bas, bit) }

MuhasebeBasarili == result.op = "get_muhasebe_data" /\ result.status = "success"

(***************************************************************************)
(* C5: for every plate of the accounting result, revenue is 0.5 times the  *)
(* sum of net_agirlik over the plate's weight rows in the date range whose *)
(* unit is not a count unit, and cost is the sum of satir_tutari over the  *)
(* plate's fuel rows in the date range (both in tenths here).              *)
(***************************************************************************)
C5_GelirGider ==
    MuhasebeBasarili =>
        \A i \in 1..Len(result.plaka_bazli) :
            LET e == result.plaka_bazli[i]
            IN  /\ e.gelir = 5 * IndisToplami(agirlik,
                                   UrunAgirliklari(e.plaka, result.baslangic, result.bitis),
                                   "net_agirlik")
                /\ e.gider = 10 * IndisToplami(yakit,
                                   PlakaYakitlari(e.plaka, result.baslangic, result.bitis),
                                   "satir_tutari")

(***************************************************************************)
(* Accounting over rows of one day: plates with fuel cost only, with       *)
(* weight only, with a count unit only, registered or not.                 *)
(***************************************************************************)
MarjYakitSatirlari ==
    { YakitSatiri(p, 1, Sayi(1), Sayi(1), Sayi(3)) : p \in Plakalar }

MarjAgirlikSatirlari ==
    { AgirlikSatiri(p, 1, Sayi(2), b) : p \in Plakalar, b \in {Birim("kg"), Birim("Adet")} }

YukleMarjYakit == InsertYakit(MarjYakitSatirlari, MaxMuhYakit)

YukleMarjAgirlik == InsertAgirlik(MarjAgirlikSatirlari, MaxMuhAgirlik)

CallGetMuhasebeDataMarj ==
    /\ result = BosSonuc
    /\ \E plaka \in {Yok, <<OrnekPlaka>>}, hata \in BOOLEAN :
          result' = get_muhasebe_data(Yok, Yok, plaka, hata)
    /\ acik' = AcikKalan(get_muhasebe_data_kapatir, Yol(result'))
    /\ UNCHANGED <<yakit, agirlik, araclar, araclar_exists>>

NextMarj ==
    \/ YukleMarjYakit
    \/ YukleMarjAgirlik
    \/ KargoAraciEkle
    \/ CallGetMuhasebeDataMarj
    \/ Teslim

SpecMarj == Init /\ [][NextMarj]_vars

(***************************************************************************)
(* C12: accounting answers net_kar = toplam_gelir - toplam_gider and       *)
(* kar_marji = net_kar / toplam_gelir * 100 when toplam_gelir > 0, and a   *)
(* margin of 0 when the revenue is 0, for the fleet and for every plate;   *)
(* no quotient has a zero divisor, and the only error answer is the one    *)
(* of a failed store query.                                                *)
(***************************************************************************)
C12_KarMarji ==
    result.op = "get_muhasebe_data" =>
        /\ result.status = "success" =>
              /\ result.net_kar = result.toplam_gelir - result.toplam_gider
              /\ result.kar_marji =
                    IF result.toplam_gelir > 0
                    THEN <<result.net_kar * 100, result.toplam_gelir>> ELSE Sifir
              /\ result.kar_marji[2] # 0
              /\ \A i \in 1..Len(result.plaka_bazli) :
                    LET e == result.plaka_bazli[i]
                    IN  /\ e.net_kar = e.gelir - e.gider
                        /\ e.kar_marji = IF e.gelir > 0
                                         THEN <<e.net_kar * 100, e.gelir>> ELSE Sifir
                        /\ e.kar_marji[2] # 0
        /\ result.status = "error" => result.message = SorguHatasi

C12_Witness ==
    /\ MuhasebeBasarili
    /\ result.toplam_gelir > 0
    /\ result.toplam_gider > 0
    /\ \E i \in 1..Len(result.plaka_bazli) :
          /\ result.plaka_bazli[i].gelir = 0
          /\ result.plaka_bazli[i].gider > 0

(***************************************************************************)
(* Accounting against every content of the vehicle table, the table itself *)
(* present or not.                                                         *)
(***************************************************************************)
InitFiltre ==
    /\ yakit = <<>>
    /\ agirlik = <<>>
    /\ araclar = {}
    /\ araclar_exists \in BOOLEAN
    /\ result = BosSonuc
    /\ acik = 0

FiltreYakitSatirlari ==
    { YakitSatiri(p, 1, Sayi(1), Sayi(1), Sayi(3)) : p \in Plakalar }

FiltreAgirlikSatirlari ==
    { AgirlikSatiri(p, 1, Sayi(2), b) :
        p \in Plakalar, b \in {Birim("kg"), Birim("Adet"), BirimNull} }

YukleFiltreYakit == InsertYakit(FiltreYakitSatirlari, MaxFiltreYakit)

YukleFiltreAgirlik == InsertAgirlik(FiltreAgirlikSatirlari, MaxFiltreAgirlik)

AracEkle ==
    \E p \in Plakalar, sahip \in Sahipler, tip \in AracTipleri :
        add_arac(p, sahip, tip, "")

AracGuncelle ==
    \E p \in Plakalar, sahip \in Sahipler, tip \in AracTipleri, aktif \in {0, 1} :
        update_arac(p, sahip, tip, aktif, "")

AracSil == \E p \in Plakalar : delete_arac(p)

CallGetMuhasebeDataFiltre ==
    /\ result = BosSonuc
    /\ \E plaka \in {Yok} \cup { <<p>> : p \in Plakalar }, hata \in BOOLEAN :
          result' = get_muhasebe_data(Yok, Yok, plaka, hata)
    /\ acik' = AcikKalan(get_muhasebe_data_kapatir, Yol(result'))
    /\ UNCHANGED <<yakit, agirlik, araclar, araclar_exists>>

NextFiltre ==
    \/ YukleFiltreYakit
    \/ YukleFiltreAgirlik
    \/ AracEkle
    \/ AracGuncelle
    \/ AracSil
    \/ CallGetMuhasebeDataFiltre
    \/ Teslim

SpecFiltre == InitFiltre /\ [][NextFiltre]_vars

SonucPlakalari == { result.plaka_bazli[i].plaka : i \in 1..Len(result.plaka_bazli) }

KaydiOlan(p) ==
    \/ \E i \in 1..Len(yakit) : yakit[i].plaka = p
    \/ \E i \in 1..Len(agirlik) :
          agirlik[i].plaka = p /\ SqlNotInAdet(agirlik[i].birim)

C7_AracTablosuYoksaHamVeri ==
    ( /\ result.op = "get_muhasebe_data"
      /\ ~ araclar_exists \/ araclar = {}
      /\ ~ (result.status = "error" /\ result.message = SorguHatasi) )
        => /\ result.status = "success"
           /\ result.toplam_gider =
                 10 * IndisToplami(yakit,
                        { i \in 1..Len(yakit) : PlakaSecili(yakit[i].plaka, result.plaka) },
                        "satir_tutari")
           /\ result.toplam_gelir =
                 5 * IndisToplami(agirlik,
                       { i \in 1..Len(agirlik) :
                           /\ PlakaSecili(agirlik[i].plaka, result.plaka)
                           /\ ~ SayimBirimi(agirlik[i].birim) },
                       "net_agirlik")

(***************************************************************************)
(* The handlers of app.py over the REST store.  fetch_all_paginated(table, *)
(* filters) returns the rows that satisfy every entry of the filters       *)
(* dictionary, in id order.  The dictionary has one entry per key: the     *)
(* handlers assign filters['islem_tarihi'] for baslangic and then again    *)
(* for bitis.                                                              *)
(***************************************************************************)
YakitFiltresi(plaka, bas, bit) ==
    [plaka |-> plaka,
     islem_tarihi |-> IF bit # Yok THEN <<[op |-> "lte", d |-> bit[1]]>>
                      ELSE IF bas # Yok THEN <<[op |-> "gte", d |-> bas[1]]>>
                      ELSE <<>>]

FiltreSaglar(r, filters) ==
    /\ r.plaka = filters.plaka
    /\ \A i \in 1..Len(filters.islem_tarihi) :
          LET f == filters.islem_tarihi[i]
          IN  IF f.op = "gte" THEN f.d <= r.islem_tarihi
                              ELSE r.islem_tarihi <= f.d

fetch_all_paginated(tablo, filters) ==
    LET Uygun(r) == FiltreSaglar(r, filters)
    IN  SelectSeq(tablo, Uygun)

(***************************************************************************)
(* float(row.get(kolon, 0) or 0): a missing key and None give 0, a number  *)
(* gives itself, a text that is no number raises ValueError.               *)
(***************************************************************************)
FloatHatasi(c) == c.t = "text"

RECURSIVE FloatHatasiVar(_, _)
FloatHatasiVar(rows, kolon) ==
    IF rows = <<>> THEN FALSE
    ELSE FloatHatasi(Head(rows)[kolon]) \/ FloatHatasiVar(Tail(rows), kolon)

RECURSIVE FloatToplami(_, _)
FloatToplami(rows, kolon) ==
    IF rows = <<>> THEN 0
    ELSE (IF Head(rows)[kolon].t = "num" THEN Head(rows)[kolon].v ELSE 0)
         + FloatToplami(Tail(rows), kolon)

(***************************************************************************)
(* A store fault: the k-th plate's fetch ("fetch"), the k-th plate's       *)
(* distance query ("km"), or the active-vehicle lookup ("aktif_kargo").    *)
(***************************************************************************)
HataYok == [k |-> 0, sorgu |-> "none"]

Ariza(k, sorgu) == [k |-> k, sorgu |-> sorgu]

HandlerHatasi(op, message, hata) ==
    [op |-> op, status |-> "error", message |-> message, hata |-> hata]

ValueError == "could not convert string to float"

(***************************************************************************)
(* One round of the loop of api_performans_karsilastir, and the body of    *)
(* api_performans_hesapla (yakitVar: its average also needs toplam_yakit   *)
(* > 0).  ok is FALSE when the round raises.  kayit_sayisi is              *)
(* len(yakit_data), which only api_performans_hesapla reports.  Rounding   *)
(* to two decimals and the monthly breakdown are left out.                 *)
(***************************************************************************)
PlakaOzeti(plaka, bas, bit, hata, k, yakitVar) ==
    IF hata = Ariza(k, "fetch") THEN [ok |-> FALSE, message |-> SorguHatasi]
    ELSE
    LET yakit_data == fetch_all_paginated(yakit, YakitFiltresi(plaka, bas, bit))
    IN  IF FloatHatasiVar(yakit_data, "yakit_miktari")
           \/ FloatHatasiVar(yakit_data, "satir_tutari")
        THEN [ok |-> FALSE, message |-> ValueError]
        ELSE IF hata = Ariza(k, "km") THEN [ok |-> FALSE, message |-> SorguHatasi]
        ELSE
        LET toplam_yakit == FloatToplami(yakit_data, "yakit_miktari")
            toplam_maliyet == FloatToplami(yakit_data, "satir_tutari")
            gercek_km == hesapla_gercek_km_tarihli(yakit, plaka, bas, bit)
        IN  [ok |-> TRUE,
             row |-> [plaka |-> plaka,
                      toplam_yakit |-> toplam_yakit,
                      toplam_maliyet |-> toplam_maliyet,
                      gercek_km |-> gercek_km,
                      ortalama_tuketim |->
                          IF gercek_km > 0 /\ (yakitVar => toplam_yakit > 0)
                          THEN <<100 * toplam_yakit, gercek_km>> ELSE Sifir,
                      kayit_sayisi |-> Len(yakit_data)]]

RECURSIVE KayitsizAtlayanDongu(_, _, _, _, _, _)
KayitsizAtlayanDongu(plakalar, k, sonuclar, bas, bit, hata) ==
    IF k > Len(plakalar) THEN [ok |-> TRUE, sonuclar |-> sonuclar]
    ELSE LET o == PlakaOzeti(plakalar[k], bas, bit, hata, k, FALSE)
         IN  IF ~ o.ok THEN o
             ELSE IF o.row.kayit_sayisi = 0
             THEN KayitsizAtlayanDongu(plakalar, k + 1, sonuclar, bas, bit, hata)
             ELSE KayitsizAtlayanDongu(plakalar, k + 1, Append(sonuclar, o.row),
                                       bas, bit, hata)

RECURSIVE KarsilastirDongu(_, _, _, _, _, _)
KarsilastirDongu(plakalar, k, sonuclar, bas, bit, hata) ==
    IF k > Len(plakalar) THEN [ok |-> TRUE, sonuclar |-> sonuclar]
    ELSE LET o == PlakaOzeti(plakalar[k], bas, bit, hata, k, FALSE)
         IN  IF o.ok
             THEN KarsilastirDongu(plakalar, k + 1, Append(sonuclar, o.row),
                                   bas, bit, hata)
             ELSE o

api_performans_karsilastir(plakalar, bas, bit, hata) ==
    LET d == KarsilastirDongu(plakalar, 1, <<>>, bas, bit, hata)
    IN  IF d.ok
        THEN [op |-> "api_performans_karsilastir", status |-> "success",
              plakalar |-> plakalar, baslangic |-> bas, bitis |-> bit,
              hata |-> hata, sonuclar |-> d.sonuclar]
        ELSE HandlerHatasi("api_performans_karsilastir", d.message, hata)

api_performans_hesapla(plaka, bas, bit, hata) ==
    LET o == PlakaOzeti(plaka, bas, bit, hata, 1, TRUE)
    IN  IF o.ok
        THEN [op |-> "api_performans_hesapla", status |-> "success",
              plakalar |-> <<plaka>>, baslangic |-> bas, bitis |-> bit,
              hata |-> hata, sonuclar |-> <<o.row>>]
        ELSE HandlerHatasi("api_performans_hesapla", o.message, hata)

(***************************************************************************)
(* The compare and performance handlers over fuel rows whose amount may be *)
(* missing, null or unparseable.                                           *)
(***************************************************************************)
KarYakitSatirlari ==
    { YakitSatiri(p, t, Sayi(km), miktar, Sayi(4)) :
        p \in Plakalar, t \in Tarihler, km \in {1, 3},
        miktar \in {Null, Eksik, Metin, Sayi(2)} }

PlakaListeleri ==
    {<<>>} \cup { <<p>> : p \in Plakalar } \cup { <<p, q>> : p \in Plakalar, q \in Plakalar }

Arizalar == {HataYok} \cup { Ariza(k, sorgu) : k \in {1, 2}, sorgu \in {"fetch", "km"} }

YukleKarYakit == InsertYakit(KarYakitSatirlari, MaxKarYakit)

CallApiPerformansKarsilastir ==
    /\ result = BosSonuc
    /\ \E plakalar \in PlakaListeleri, bas \in {Yok, <<2>>}, bit \in {Yok, <<2>>},
          hata \in Arizalar :
          result' = api_performans_karsilastir(plakalar, bas, bit, hata)
    /\ UNCHANGED <<yakit, agirlik, araclar, araclar_exists, acik>>

CallApiPerformansHesapla ==
    /\ result = BosSonuc
    /\ \E p \in Plakalar, bas \in {Yok, <<2>>}, bit \in {Yok, <<2>>},
          hata \in Arizalar :
          result' = api_performans_hesapla(p, bas, bit, hata)
    /\ UNCHANGED <<yakit, agirlik, araclar, araclar_exists, acik>>

NextKarsilastir ==
    \/ YukleKarYakit
    \/ CallApiPerformansKarsilastir
    \/ CallApiPerformansHesapla
    \/ Teslim

SpecKarsilastir == Init /\ [][NextKarsilastir]_vars

NextGirdiSirasi ==
    \/ YukleKarYakit
    \/ CallApiPerformansKarsilastir
    \/ Teslim

SpecGirdiSirasi == Init /\ [][NextGirdiSirasi]_vars

HandlerBasarili ==
    /\ result.op \in {"api_performans_karsilastir", "api_performans_hesapla"}
    /\ result.status = "success"

AraliktakiYakitlar(p, bas, bit) ==
    { j \in 1..Len(yakit) :
        /\ yakit[j].plaka = p
        /\ bas <= yakit[j].islem_tarihi
        /\ yakit[j].islem_tarihi <= bit }

(***************************************************************************)
(* C8: with a start and an end date, the total fuel, the total cost and    *)
(* the record count of every plate of the compare and performance          *)
(* handlers come from exactly the plate's fuel rows with                   *)
(* start <= islem_tarihi <= end.                                           *)
(***************************************************************************)
C8_AyniTarihDilimi ==
    ( /\ HandlerBasarili
      /\ IkisiDeVar(result.baslangic, result.bitis) )
        => \A i \in 1..Len(result.sonuclar) :
             LET e == result.sonuclar[i]
                 I == AraliktakiYakitlar(e.plaka, result.baslangic[1], result.bitis[1])
             IN  /\ e.toplam_yakit = IndisToplami(yakit, I, "yakit_miktari")
                 /\ e.toplam_maliyet = IndisToplami(yakit, I, "satir_tutari")
                 /\ e.kayit_sayisi = Cardinality(I)

(***************************************************************************)
(* C10: a fuel row whose numeric field is missing, null or unparseable     *)
(* counts as 0 and never turns the answer into an error: without a store   *)
(* fault the handlers answer success, with the sums of the numeric cells.  *)
(***************************************************************************)
C10_BozukAlanSifir ==
    ( /\ result.op \in {"api_performans_karsilastir", "api_performans_hesapla"}
      /\ result.hata = HataYok )
        => /\ result.status = "success"
           /\ \A i \in 1..Len(result.sonuclar) :
                 LET e == result.sonuclar[i]
                     I == { j \in 1..Len(yakit) :
                              FiltreSaglar(yakit[j],
                                  YakitFiltresi(e.plaka, result.baslangic, result.bitis)) }
                 IN  e.toplam_yakit = IndisToplami(yakit, I, "yakit_miktari")

KaydiYok(p) == \A j \in 1..Len(yakit) : yakit[j].plaka # p

(***************************************************************************)
(* C11: compare answers with one row per element of the input plate list,  *)
(* in input order, duplicates included; a plate without fuel rows gets a   *)
(* row of zeros and does not fail the batch: an error answer always has    *)
(* another cause (a store fault, or an unparseable cell of a listed        *)
(* plate).                                                                 *)
(***************************************************************************)
C11_GirdiSirasindaBirSatir ==
    result.op = "api_performans_karsilastir" =>
        /\ result.status = "success" =>
              /\ Len(result.sonuclar) = Len(result.plakalar)
              /\ \A i \in 1..Len(result.plakalar) :
                    LET e == result.sonuclar[i]
                    IN  /\ e.plaka = result.plakalar[i]
                        /\ KaydiYok(e.plaka) =>
                              /\ e.toplam_yakit = 0
                              /\ e.toplam_maliyet = 0
                              /\ e.gercek_km = 0
                              /\ e.ortalama_tuketim = Sifir
        /\ result.status = "error" =>
              \/ result.hata # HataYok
              \/ result.message = ValueError

C11_Witness ==
    /\ result.op = "api_performans_karsilastir"
    /\ result.status = "success"
    /\ Len(result.plakalar) = 2
    /\ KaydiYok(result.plakalar[1])
    /\ result.sonuclar[2].gercek_km > 0
    /\ result.sonuclar[2].toplam_yakit > 0

(***************************************************************************)
(* get_aktif_kargo_araclari: the plates of the active cargo vehicles, of   *)
(* owner BIZIM only unless dahil_taseron; any exception of the query is    *)
(* caught, printed and answered with the empty list.                       *)
(***************************************************************************)
get_aktif_kargo_araclari(dahil_taseron, hata) ==
    IF hata \/ ~ araclar_exists THEN {}
    ELSE { a.plaka : a \in { b \in araclar :
                                /\ b.aktif = 1
                                /\ b.arac_tipi = "KARGO ARACI"
                                /\ (dahil_taseron \/ b.sahip = "BIZIM") } }

(***************************************************************************)
(* analyze_from_database of model_analyzer: the number of fuel rows, the   *)
(* total fuel amount and the plates of the fuel table.                     *)
(***************************************************************************)
analyze_from_database ==
    [status |-> "success",
     records |-> Len(yakit),
     toplam_yakit |-> SqlSum(yakit, "yakit_miktari"),
     plakalar |-> { yakit[i].plaka : i \in 1..Len(yakit) }]

(***************************************************************************)
(* The fleet prediction of analyze.  plaka_yakit is a dictionary: its keys *)
(* are in the order of their first row with a positive amount.             *)
(***************************************************************************)
RECURSIVE IlkGorulmeSirasi(_, _)
IlkGorulmeSirasi(rows, gorulen) ==
    IF rows = <<>> THEN <<>>
    ELSE IF Head(rows).plaka \in gorulen \/ Head(rows).yakit_miktari.t # "num"
            \/ Head(rows).yakit_miktari.v <= 0
         THEN IlkGorulmeSirasi(Tail(rows), gorulen)
         ELSE <<Head(rows).plaka>>
              \o IlkGorulmeSirasi(Tail(rows), gorulen \cup {Head(rows).plaka})

PlakaninYakiti(rows, p) ==
    LET Uygun(r) == r.plaka = p
    IN  FloatToplami(SelectSeq(rows, Uygun), "yakit_miktari")

RECURSIVE ToplamYakitSirasinaEkle(_, _)
ToplamYakitArtanEkle(sirali, e) ==
    IF sirali = <<>> THEN <<e>>
    ELSE IF Head(sirali).toplam_yakit <= e.toplam_yakit
         THEN <<Head(sirali)>> \o ToplamYakitSirasinaEkle(Tail(sirali), e)
         ELSE <<e>> \o sirali

ToplamYakitSirasinaEkle(sirali, e) ==
    IF sirali = <<>> THEN <<e>>
    ELSE IF Head(sirali).toplam_yakit >= e.toplam_yakit
         THEN <<Head(sirali)>> \o ToplamYakitSirasinaEkle(Tail(sirali), e)
         ELSE <<e>> \o sirali

RECURSIVE ToplamYakitaGoreSirala(_)
ToplamYakitaGoreSirala(q) ==
    IF q = <<>> THEN <<>>
    ELSE ToplamYakitSirasinaEkle(ToplamYakitaGoreSirala(SubSeq(q, 1, Len(q) - 1)),
                                 q[Len(q)])

KorumasizTahmin(p, toplam_yakit, bas, bit, aktif_kargo) ==
    LET gercek_km == hesapla_gercek_km_tarihli(yakit, p, bas, bit)
        gercek_ort == <<100 * toplam_yakit, gercek_km>>
    IN  [plaka |-> p,
         toplam_yakit |-> toplam_yakit,
         gercek_km |-> gercek_km,
         gercek_ortalama |-> gercek_ort,
         tahmini_ortalama |-> IF gercek_km > 0 THEN gercek_ort ELSE Sifir,
         aktif |-> p \in aktif_kargo]

Tahmin(p, toplam_yakit, bas, bit, aktif_kargo) ==
    LET gercek_km == hesapla_gercek_km_tarihli(yakit, p, bas, bit)
        gercek_ort == IF gercek_km > 0 THEN <<100 * toplam_yakit, gercek_km>> ELSE Sifir
    IN  [plaka |-> p,
         toplam_yakit |-> toplam_yakit,
         gercek_km |-> gercek_km,
         gercek_ortalama |-> gercek_ort,
         tahmini_ortalama |-> IF gercek_km > 0 THEN gercek_ort ELSE Sifir,
         aktif |-> p \in aktif_kargo]

analyze(bas, bit, dahil_taseron, hata) ==
    LET analysis_result == analyze_from_database
        Basarili(tahminler) ==
            [op |-> "analyze", status |-> "success", baslangic |-> bas, bitis |-> bit,
             dahil_taseron |-> dahil_taseron, hata |-> hata, tahminler |-> tahminler]
    IN  IF analysis_result.records = 0
        THEN HandlerHatasi("analyze", "no records", hata)
        ELSE IF ~ (analysis_result.toplam_yakit > 0 /\ analysis_result.plakalar # {})
        THEN Basarili(<<>>)
        ELSE
        LET aktif_kargo == get_aktif_kargo_araclari(FALSE, hata = Ariza(1, "aktif_kargo"))
            Pozitif(r) == SqlPozitif(r.yakit_miktari)
            yakit_data == SelectSeq(yakit, Pozitif)
            anahtarlar == IlkGorulmeSirasi(yakit_data, {})
        IN  IF hata = Ariza(1, "fetch") THEN HandlerHatasi("analyze", SorguHatasi, hata)
            ELSE IF FloatHatasiVar(yakit_data, "yakit_miktari")
            THEN HandlerHatasi("analyze", ValueError, hata)
            ELSE IF hata.sorgu = "km" /\ hata.k \in 1..Len(anahtarlar)
            THEN HandlerHatasi("analyze", SorguHatasi, hata)
            ELSE Basarili(ToplamYakitaGoreSirala(
                     [i \in 1..Len(anahtarlar) |->
                         Tahmin(anahtarlar[i], PlakaninYakiti(yakit_data, anahtarlar[i]),
                                bas, bit, aktif_kargo)]))

(***************************************************************************)
(* The connection that analyze leaves open: the one of the active-vehicle  *)
(* lookup, when the lookup is reached and its query raises.                *)
(***************************************************************************)
analyze_acik(sonuc) ==
    LET a == analyze_from_database
        ulasildi == a.records # 0 /\ a.toplam_yakit > 0 /\ a.plakalar # {}
        yol == IF sonuc.hata = Ariza(1, "aktif_kargo") \/ ~ araclar_exists
               THEN "raise" ELSE "return"
    IN  IF ulasildi THEN AcikKalan(get_aktif_kargo_araclari_kapatir, yol) ELSE 0

(***************************************************************************)
(* The aggregations under store faults.                                    *)
(***************************************************************************)
HataYakitSatirlari ==
    { YakitSatiri(p, 1, Sayi(km), Sayi(2), Sayi(4)) : p \in Plakalar, km \in {1, 3} }

AnalizArizalari ==
    {HataYok, Ariza(1, "aktif_kargo"), Ariza(1, "fetch"), Ariza(1, "km"), Ariza(2, "km")}

YukleHataYakit == InsertYakit(HataYakitSatirlari, MaxHataYakit)

CallAnalyze ==
    /\ result = BosSonuc
    /\ \E dahil_taseron \in BOOLEAN, hata \in AnalizArizalari :
          result' = analyze(Yok, Yok, dahil_taseron, hata)
    /\ acik' = analyze_acik(result')
    /\ UNCHANGED <<yakit, agirlik, araclar, araclar_exists>>

CallKarsilastirHata ==
    /\ result = BosSonuc
    /\ \E plakalar \in PlakaListeleri, hata \in Arizalar :
          result' = api_performans_karsilastir(plakalar, Yok, Yok, hata)
    /\ UNCHANGED <<yakit, agirlik, araclar, araclar_exists, acik>>

CallMuhasebeKaydeder ==
    /\ result = BosSonuc
    /\ \E hata \in BOOLEAN : result' = get_muhasebe_data(Yok, Yok, Yok, hata)
    /\ acik' = AcikKalan(get_muhasebe_data_kapatir, Yol(result'))
    /\ yakit' = IF Len(yakit) > 0 THEN Tail(yakit) ELSE yakit
    /\ UNCHANGED <<agirlik, araclar, araclar_exists>>

CallMuhasebeHata ==
    /\ result = BosSonuc
    /\ \E hata \in BOOLEAN : result' = get_muhasebe_data(Yok, Yok, Yok, hata)
    /\ acik' = AcikKalan(get_muhasebe_data_kapatir, Yol(result'))
    /\ UNCHANGED <<yakit, agirlik, araclar, araclar_exists>>

CallPerformansHata ==
    /\ result = BosSonuc
    /\ \E p \in Plakalar, hata \in BOOLEAN :
          result' = get_arac_performans_analizi(p, Yok, Yok, hata)
    /\ acik' = AcikKalan(get_arac_performans_analizi_kapatir, Yol(result'))
    /\ UNCHANGED <<yakit, agirlik, araclar, araclar_exists>>

NextHata ==
    \/ YukleHataYakit
    \/ KargoAraciEkle
    \/ CallAnalyze
    \/ CallKarsilastirHata
    \/ CallMuhasebeHata
    \/ CallPerformansHata
    \/ Teslim

SpecHata == Init /\ [][NextHata]_vars

Toplamalar ==
    {"analyze", "api_performans_karsilastir", "get_muhasebe_data",
     "get_arac_performans_analizi"}

HataAlanlari == {"op", "status", "message", "hata"}

(***************************************************************************)
(* The store fault of the request reached a query that the request issued. *)
(***************************************************************************)
SorguBasarisiz ==
    \/ /\ result.op \in {"get_muhasebe_data", "get_arac_performans_analizi"}
       /\ result.hata = TRUE
    \/ /\ result.op = "api_performans_karsilastir"
       /\ result.hata.k \in 1..Len(result.plakalar)
    \/ /\ result.op = "analyze"
       /\ result.hata # HataYok
       /\ analyze_from_database.toplam_yakit > 0
       /\ result.hata.sorgu = "km"
             => result.hata.k <= Cardinality(analyze_from_database.plakalar)

(***************************************************************************)
(* C9: when a store query of an aggregation fails, the answer is           *)
(* {status: error, message} with no aggregate value: compare returns none  *)
(* of the rows of the earlier plates, and a failing active-vehicle lookup  *)
(* of the fleet prediction is an error, not a success.                     *)
(***************************************************************************)
C9_SorguHatasiHataDoner ==
    result.op \in Toplamalar =>
        /\ result.status = "error" => DOMAIN result \subseteq HataAlanlari
        /\ result.status = "success" => ~ SorguBasarisiz

(***************************************************************************)
(* The fleet prediction over fuel rows of two days and every content of    *)
(* the vehicle table, with and without the dahil_taseron flag of the form. *)
(***************************************************************************)
AnalizYakitSatirlari ==
    { YakitSatiri(p, t, Sayi(km), Sayi(2), Sayi(4)) :
        p \in Plakalar, t \in Tarihler, km \in {1, 3} }

YukleAnalizYakit == InsertYakit(AnalizYakitSatirlari, MaxAnalizYakit)

CallAnalyzeFiltre ==
    /\ result = BosSonuc
    /\ \E bas \in {Yok, <<2>>}, dahil_taseron \in BOOLEAN :
          result' = analyze(bas, bas, dahil_taseron, HataYok)
    /\ acik' = analyze_acik(result')
    /\ UNCHANGED <<yakit, agirlik, araclar, araclar_exists>>

NextAnaliz ==
    \/ YukleAnalizYakit
    \/ AracEkle
    \/ AracGuncelle
    \/ CallAnalyzeFiltre
    \/ Teslim

SpecAnaliz == Init /\ [][NextAnaliz]_vars

NextTahmin ==
    \/ YukleAnalizYakit
    \/ CallAnalyzeFiltre
    \/ Teslim

SpecTahmin == Init /\ [][NextTahmin]_vars

AnalizBasarili == result.op = "analyze" /\ result.status = "success"

(***************************************************************************)
(* C13: every entry of the fleet prediction has gercek_ortalama =          *)
(* toplam_yakit / (gercek_km / 100) when gercek_km > 0 and 0 otherwise,    *)
(* tahmini_ortalama equal to it, and no quotient with a zero divisor;      *)
(* toplam_yakit is the plate's fuel and gercek_km its true distance.       *)
(***************************************************************************)
C13_GercekOrtalama ==
    AnalizBasarili =>
        \A i \in 1..Len(result.tahminler) :
            LET e == result.tahminler[i]
            IN  /\ e.toplam_yakit =
                      IndisToplami(yakit, PlakaYakitlari(e.plaka, Yok, Yok), "yakit_miktari")
                /\ e.gercek_km =
                      hesapla_gercek_km_tarihli(yakit, e.plaka, result.baslangic, result.bitis)
                /\ e.gercek_ortalama =
                      IF e.gercek_km > 0 THEN <<100 * e.toplam_yakit, e.gercek_km>> ELSE Sifir
                /\ e.gercek_ortalama[2] # 0
                /\ e.tahmini_ortalama = e.gercek_ortalama

C13_Witness ==
    /\ AnalizBasarili
    /\ \E i \in 1..Len(result.tahminler) : OranPozitif(result.tahminler[i].gercek_ortalama)
    /\ \E i \in 1..Len(result.tahminler) :
          /\ result.tahminler[i].gercek_km = 0
          /\ result.tahminler[i].toplam_yakit > 0

(***************************************************************************)
(* C14: the active-vehicle set behind the aktif field of the fleet         *)
(* prediction holds every active cargo vehicle of owner BIZIM or TASERON   *)
(* when the dahil_taseron flag is set, and only those of owner BIZIM when  *)
(* it is not.                                                              *)
(***************************************************************************)
C14_TaseronBayragi ==
    AnalizBasarili =>
        \A i \in 1..Len(result.tahminler) :
            LET e == result.tahminler[i]
            IN  e.aktif <=>
                  \E a \in araclar :
                      /\ a.plaka = e.plaka
                      /\ a.aktif = 1
                      /\ a.arac_tipi = "KARGO ARACI"
                      /\ \/ a.sahip = "BIZIM"
                         \/ result.dahil_taseron /\ a.sahip = "TASERON"

(***************************************************************************)
(* The aggregations of the SQLite layer, each with a query that may raise. *)
(* An exception of hesapla_gercek_km leaves the function; the caller sees  *)
(* it as an error.                                                         *)
(***************************************************************************)
CallHesaplaGercekKmHata ==
    /\ result = BosSonuc
    /\ \E p \in Plakalar, hata \in BOOLEAN :
          result' = IF hata
                    THEN HataSonucu("hesapla_gercek_km", SorguHatasi)
                    ELSE [op |-> "hesapla_gercek_km", status |-> "success", plaka |-> p,
                          deger |-> hesapla_gercek_km(yakit, p)]
    /\ acik' = AcikKalan(hesapla_gercek_km_kapatir, Yol(result'))
    /\ UNCHANGED <<yakit, agirlik, araclar, araclar_exists>>

NextBaglanti ==
    \/ YukleHataYakit
    \/ KargoAraciEkle
    \/ CallHesaplaGercekKmHata
    \/ CallMuhasebeHata
    \/ CallPerformansHata
    \/ Teslim

SpecBaglanti == Init /\ [][NextBaglanti]_vars

SqliteToplamalari ==
    {"hesapla_gercek_km", "get_muhasebe_data", "get_arac_performans_analizi"}

(***************************************************************************)
(* C15: every store connection that hesapla_gercek_km, get_muhasebe_data   *)
(* or get_arac_performans_analizi opens is closed when the call returns,   *)
(* also when a query raised.                                               *)
(***************************************************************************)
C15_BaglantiKapanir ==
    result.op \in SqliteToplamalari => acik = 0

(***************************************************************************)
(* The compare handler step by step, next to an upload that writes the     *)
(* fuel table.  One round of the loop issues two store requests: the fetch *)
(* of the plate's rows, then the distance query of hesapla_gercek_km.      *)
(* While a request runs, result holds its frame (status "running"): the    *)
(* plate list, the round k, the stage, the sums of the fetch, the rows     *)
(* built so far, and durumlar, the contents that the fuel table has had    *)
(* since the round began.  upload_yakit deletes all rows and then inserts  *)
(* its batches; each is one request to the store.                          *)
(***************************************************************************)
EsYakitSatirlari ==
    { YakitSatiri(p, 1, Sayi(km), Sayi(2), Sayi(4)) : p \in Plakalar, km \in {1, 3} }

SurenIstek == result # BosSonuc /\ result.status = "running"

YazmaSerbest == \/ result = BosSonuc
                \/ SurenIstek /\ result.yazma < MaxEsYazma

Yazildi(yeni) ==
    IF SurenIstek
    THEN result' = [result EXCEPT !.durumlar = @ \cup {yeni}, !.yazma = @ + 1]
    ELSE result' = result

delete_all_records ==
    /\ YazmaSerbest
    /\ yakit # <<>>
    /\ yakit' = <<>>
    /\ Yazildi(<<>>)
    /\ UNCHANGED <<agirlik, araclar, araclar_exists, acik>>

supabase_insert_batch ==
    /\ YazmaSerbest
    /\ Len(yakit) < MaxEsYakit
    /\ \E r \in EsYakitSatirlari :
          /\ yakit' = Append(yakit, r)
          /\ Yazildi(Append(yakit, r))
    /\ UNCHANGED <<agirlik, araclar, araclar_exists, acik>>

KarsilastirBasla ==
    /\ result = BosSonuc
    /\ \E plakalar \in PlakaListeleri \ {<<>>} :
          result' = [op |-> "api_performans_karsilastir", status |-> "running",
                     plakalar |-> plakalar, k |-> 1, asama |-> "fetch",
                     toplam_yakit |-> 0, toplam_maliyet |-> 0,
                     sonuclar |-> <<>>, durumlar |-> {yakit}, yazma |-> 0]
    /\ UNCHANGED <<yakit, agirlik, araclar, araclar_exists, acik>>

KarsilastirFetch ==
    /\ SurenIstek
    /\ result.asama = "fetch"
    /\ LET yakit_data == fetch_all_paginated(yakit,
                              YakitFiltresi(result.plakalar[result.k], Yok, Yok))
       IN  result' = [result EXCEPT
                        !.asama = "km",
                        !.toplam_yakit = FloatToplami(yakit_data, "yakit_miktari"),
                        !.toplam_maliyet = FloatToplami(yakit_data, "satir_tutari")]
    /\ UNCHANGED <<yakit, agirlik, araclar, araclar_exists, acik>>

KarsilastirKm ==
    /\ SurenIstek
    /\ result.asama = "km"
    /\ LET plaka == result.plakalar[result.k]
           gercek_km == hesapla_gercek_km_tarihli(yakit, plaka, Yok, Yok)
           row == [plaka |-> plaka,
                   toplam_yakit |-> result.toplam_yakit,
                   toplam_maliyet |-> result.toplam_maliyet,
                   gercek_km |-> gercek_km,
                   ortalama_tuketim |-> IF gercek_km > 0
                                        THEN <<100 * result.toplam_yakit, gercek_km>>
                                        ELSE Sifir,
                   durumlar |-> result.durumlar]
           sonuclar == Append(result.sonuclar, row)
       IN  IF result.k = Len(result.plakalar)
           THEN result' = [op |-> "api_performans_karsilastir", status |-> "success",
                           plakalar |-> result.plakalar, sonuclar |-> sonuclar]
           ELSE result' = [result EXCEPT !.k = @ + 1, !.asama = "fetch",
                                         !.sonuclar = sonuclar,
                                         !.durumlar = {yakit}, !.yazma = 0]
    /\ UNCHANGED <<yakit, agirlik, araclar, araclar_exists, acik>>

TeslimTamam == ~ SurenIstek /\ Teslim

NextEsZamanli ==
    \/ delete_all_records
    \/ supabase_insert_batch
    \/ KarsilastirBasla
    \/ KarsilastirFetch
    \/ KarsilastirKm
    \/ TeslimTamam

SpecEsZamanli == Init /\ [][NextEsZamanli]_vars

(***************************************************************************)
(* C16: the total fuel and the true distance that compare returns for a    *)
(* plate are those of one and the same content of the fuel table, one that *)
(* the table had while the plate was processed, also when an upload wrote  *)
(* the table meanwhile.                                                    *)
(***************************************************************************)
C16_TekAnlikGoruntu ==
    ( /\ result.op = "api_performans_karsilastir"
      /\ result.status = "success" )
        => \A i \in 1..Len(result.sonuclar) :
             LET e == result.sonuclar[i]
             IN  \E S \in e.durumlar :
                    /\ e.toplam_yakit =
                          FloatToplami(fetch_all_paginated(S,
                                           YakitFiltresi(e.plaka, Yok, Yok)),
                                       "yakit_miktari")
                    /\ e.gercek_km = hesapla_gercek_km_tarihli(S, e.plaka, Yok, Yok)

(***************************************************************************)
(* bulk_import_araclar: INSERT OR IGNORE INTO araclar SELECT DISTINCT      *)
(* plaka, 'BIZIM', 'KARGO ARACI', 'Otomatik eklendi', 1 FROM yakit WHERE   *)
(* plaka IS NOT NULL AND plaka != ''.  A plate that has a row is skipped;  *)
(* eklenen is the rowcount of the statement, toplam the row count after.   *)
(* calisma tells a run that directly follows another run from a first one. *)
(***************************************************************************)
YakitPlakalari == { yakit[i].plaka : i \in 1..Len(yakit) } \ {""}

InsertOrReplace(tablo, plakalar) ==
    { a \in tablo : a.plaka \notin plakalar }
        \cup { AracSatiri(p, "BIZIM", "KARGO ARACI", 1, "Otomatik eklendi") : p \in plakalar }

InsertOrIgnore(tablo, plakalar) ==
    tablo \cup { AracSatiri(p, "BIZIM", "KARGO ARACI", 1, "Otomatik eklendi") :
                   p \in { q \in plakalar : \A a \in tablo : a.plaka # q } }

Rowcount(tablo, plakalar) == Cardinality(InsertOrIgnore(tablo, plakalar) \ tablo)

bulk_import_araclar ==
    /\ result = BosSonuc \/ (result.op = "bulk_import_araclar" /\ result.calisma = 1)
    /\ IF ~ araclar_exists
       THEN /\ araclar' = araclar
            /\ result' = [op |-> "bulk_import_araclar", status |-> "error",
                          calisma |-> IF result = BosSonuc THEN 1 ELSE 2]
       ELSE /\ araclar' = InsertOrIgnore(araclar, YakitPlakalari)
            /\ result' = [op |-> "bulk_import_araclar", status |-> "success",
                          eklenen |-> Rowcount(araclar, YakitPlakalari),
                          toplam |-> Cardinality(araclar'),
                          calisma |-> IF result = BosSonuc THEN 1 ELSE 2]
    /\ acik' = AcikKalan(arac_islemi_kapatir, Yol(result'))
    /\ UNCHANGED <<yakit, agirlik, araclar_exists>>

(***************************************************************************)
(* The vehicle table under every order of add_arac, update_arac,           *)
(* delete_arac and bulk_import_araclar; each is one SQL statement, which   *)
(* SQLite runs atomically, so concurrent requests take effect one after    *)
(* another in some order.                                                  *)
(***************************************************************************)
AracYakitSatirlari ==
    { YakitSatiri(p, 1, Sayi(1), Sayi(1), Sayi(3)) : p \in Plakalar \cup {""} }

YukleAracYakit == InsertYakit(AracYakitSatirlari, MaxAracYakit)

NextArac ==
    \/ YukleAracYakit
    \/ AracEkle
    \/ AracGuncelle
    \/ AracSil
    \/ bulk_import_araclar
    \/ Teslim

SpecArac == InitFiltre /\ [][NextArac]_vars

(***************************************************************************)
(* C17: whatever the order of add_arac, update_arac, delete_arac and       *)
(* bulk_import_araclar, no two rows of the vehicle table have the same     *)
(* plate.                                                                  *)
(***************************************************************************)
C17_PlakaTekil ==
    \A a \in araclar : \A b \in araclar : a.plaka = b.plaka => a = b

C17_Witness ==
    /\ result.op = "add_arac"
    /\ result.status = "error"
    /\ \E a \in araclar : a.sahip = "TASERON"
    /\ \E a \in araclar : a.notlar = "Otomatik eklendi"

TopluEkleBasarili(r) == r.op = "bulk_import_araclar" /\ r.status = "success"

(***************************************************************************)
(* C18: bulk_import_araclar is idempotent.  Every run leaves the rows that *)
(* the vehicle table already has as they are (owner, type, active flag and *)
(* notes), and a run that directly follows a run, the fuel rows unchanged, *)
(* reports 0 added vehicles and leaves the table as the first run left it. *)
(***************************************************************************)
C18_TopluEkleIdempotent ==
    [][ TopluEkleBasarili(result') =>
          /\ araclar \subseteq araclar'
          /\ TopluEkleBasarili(result) =>
                /\ result'.eklenen = 0
                /\ result'.toplam = result.toplam
                /\ araclar' = araclar ]_vars

C18_Witness ==
    /\ TopluEkleBasarili(result)
    /\ result.calisma = 2
    /\ result.eklenen = 0
    /\ \E a \in araclar : a.sahip = "TASERON" /\ a.plaka \in YakitPlakalari
    /\ \E a \in araclar : a.notlar = "Otomatik eklendi"

(***************************************************************************)
(* C19: hesapla_gercek_km returns 0 whenever the plate has fewer than two  *)
(* qualifying fuel rows, none or exactly one, whatever the single reading. *)
(***************************************************************************)
C19_IkidenAzKayitSifir ==
    ( /\ result.op = "hesapla_gercek_km"
      /\ Cardinality(Nitelikli(yakit, result.plaka)) < 2 )
        => result.deger = 0

C19_Witness ==
    /\ result.op = "hesapla_gercek_km"
    /\ result.deger = 0
    /\ \E i \in 1..Len(yakit) : Nitelikli(yakit, result.plaka) = {i}
                                 /\ yakit[i].km_bilgisi.v = 6
    /\ \E i, j \in 1..Len(yakit) :
          /\ yakit[i].plaka = result.plaka
          /\ yakit[j].plaka = result.plaka
          /\ yakit[i].km_bilgisi = Sayi(0)
          /\ yakit[j].km_bilgisi = Null

(***************************************************************************)
(* C20: hesapla_gercek_km is never negative, and it is exactly 0 when no   *)
(* reading of the plate's ordered qualifying readings is greater than the  *)
(* reading before it.                                                      *)
(***************************************************************************)
C20_NegatifOlmaz ==
    result.op = "hesapla_gercek_km" =>
        /\ result.deger >= 0
        /\ ( \A i, j \in Nitelikli(yakit, result.plaka) :
                 Komsu(yakit, result.plaka, i, j) => Fark(yakit, <<i, j>>) <= 0 )
              => result.deger = 0

C20_Witness ==
    /\ result.op = "hesapla_gercek_km"
    /\ result.deger = 0
    /\ Cardinality(Nitelikli(yakit, result.plaka)) = 3
    /\ \E i, j \in Nitelikli(yakit, result.plaka) :
          Komsu(yakit, result.plaka, i, j) /\ Fark(yakit, <<i, j>>) < 0
    /\ \E i, j \in Nitelikli(yakit, result.plaka) :
          Komsu(yakit, result.plaka, i, j) /\ Fark(yakit, <<i, j>>) = 0

(***************************************************************************)
(* The last reading of a plate in query order, and a step that appends to  *)
(* the fuel table a qualifying row of plate p that sorts after all the     *)
(* qualifying rows the plate has.                                          *)
(***************************************************************************)
SonOkuma(tablo, p) ==
    LET rows == KmSorgusu(tablo, p) IN rows[Len(rows)].km_bilgisi.v

SonaEklenen(eski, yeni, p) ==
    /\ Len(yeni) = Len(eski) + 1
    /\ SubSeq(yeni, 1, Len(eski)) = eski
    /\ Len(yeni) \in Nitelikli(yeni, p)
    /\ \A i \in Nitelikli(eski, p) : eski[i].islem_tarihi <= yeni[Len(yeni)].islem_tarihi

(***************************************************************************)
(* C21: appending a fuel row that sorts after all qualifying rows of its   *)
(* plate never decreases the plate's hesapla_gercek_km: the value grows by *)
(* exactly new - last when the new reading exceeds the last one and is     *)
(* unchanged otherwise (also when the plate had no qualifying row).        *)
(***************************************************************************)
C21_SonaEklemeAzaltmaz ==
    [][ \A p \in Plakalar :
          SonaEklenen(yakit, yakit', p) =>
            LET yeniKm == yakit'[Len(yakit')].km_bilgisi.v
                artis == IF Nitelikli(yakit, p) # {} /\ yeniKm > SonOkuma(yakit, p)
                         THEN yeniKm - SonOkuma(yakit, p) ELSE 0
            IN  hesapla_gercek_km(yakit', p) = hesapla_gercek_km(yakit, p) + artis ]_vars

C21_Witness ==
    /\ result.op = "hesapla_gercek_km"
    /\ Len(yakit) = 3
    /\ LET eski == SubSeq(yakit, 1, 2)
           p == result.plaka
       IN  /\ SonaEklenen(eski, yakit, p)
           /\ hesapla_gercek_km(eski, p) > 0
           /\ yakit[3].km_bilgisi.v > SonOkuma(eski, p)
           /\ result.deger = hesapla_gercek_km(eski, p)
                               + yakit[3].km_bilgisi.v - SonOkuma(eski, p)

(***************************************************************************)
(* The table without its i-th row.                                         *)
(***************************************************************************)
SatirSil(tablo, i) == SubSeq(tablo, 1, i - 1) \o SubSeq(tablo, i + 1, Len(tablo))

OkumasiGecersiz(r) == r.km_bilgisi.t = "null" \/ (r.km_bilgisi.t = "num" /\ r.km_bilgisi.v <= 0)

(***************************************************************************)
(* C22: a fuel row whose km_bilgisi is NULL or not greater than 0 is       *)
(* ignored by hesapla_gercek_km: the value of every plate is the same on   *)
(* the table without that row.                                             *)
(***************************************************************************)
C22_GecersizOkumaYokSayilir ==
    \A i \in 1..Len(yakit) :
        OkumasiGecersiz(yakit[i]) =>
            \A p \in Plakalar :
                hesapla_gercek_km(SatirSil(yakit, i), p) = hesapla_gercek_km(yakit, p)

C22_Witness ==
    /\ result.op = "hesapla_gercek_km"
    /\ Len(yakit) = 3
    /\ \A i \in 1..3 : yakit[i].plaka = result.plaka /\ yakit[i].islem_tarihi = 1
    /\ OkumasiGecersiz(yakit[2])
    /\ {1, 3} = Nitelikli(yakit, result.plaka)
    /\ result.deger > 0
    /\ result.deger = hesapla_gercek_km(SatirSil(yakit, 2), result.plaka)

(***************************************************************************)
(* The first and the last qualifying reading of a plate in query order,    *)
(* and the pairs of consecutive readings whose difference is negative.     *)
(***************************************************************************)
IlkNitelikli(tablo, p) ==
    CHOOSE i \in Nitelikli(tablo, p) :
        \A j \in Nitelikli(tablo, p) \ {i} : Once(tablo, i, j)

SonNitelikli(tablo, p) ==
    CHOOSE i \in Nitelikli(tablo, p) :
        \A j \in Nitelikli(tablo, p) \ {i} : Once(tablo, j, i)

SonEksiIlk(tablo, p) == Fark(tablo, <<IlkNitelikli(tablo, p), SonNitelikli(tablo, p)>>)

NegatifKomsular(tablo, p) ==
    LET Q == Nitelikli(tablo, p)
    IN  { c \in Q \X Q : Komsu(tablo, p, c[1], c[2]) /\ Fark(tablo, c) < 0 }

(***************************************************************************)
(* C27: with at least two qualifying readings, hesapla_gercek_km equals    *)
(* last - first plus the magnitudes of the discarded negative differences; *)
(* so it is at least last - first, with equality exactly when no two       *)
(* consecutive readings decrease.                                          *)
(***************************************************************************)
C27_SonEksiIlkArtiGeriSarmalar ==
    (result.op = "hesapla_gercek_km"
        /\ Cardinality(Nitelikli(yakit, result.plaka)) >= 2) =>
        LET p == result.plaka
            geri == NegatifKomsular(yakit, p)
        IN  /\ result.deger = SonEksiIlk(yakit, p) - FarkToplami(yakit, geri)
            /\ result.deger >= SonEksiIlk(yakit, p)
            /\ (result.deger = SonEksiIlk(yakit, p)) <=> (geri = {})

C27_Witness ==
    /\ result.op = "hesapla_gercek_km"
    /\ Cardinality(Nitelikli(yakit, result.plaka)) = 3
    /\ NegatifKomsular(yakit, result.plaka) # {}
    /\ SonEksiIlk(yakit, result.plaka) > 0
    /\ result.deger > SonEksiIlk(yakit, result.plaka)

(***************************************************************************)
(* get_arac_performans_analizi over rows whose sums can be zero: fuel rows *)
(* with and without a reading and an amount, one weight row.               *)
(***************************************************************************)
SifirYakitSatirlari ==
    { YakitSatiri(p, 1, km, miktar, Sayi(4)) :
        p \in Plakalar, km \in {Null, Sayi(3)}, miktar \in {Null, Sayi(2)} }

SifirAgirlikSatirlari ==
    { AgirlikSatiri(p, 1, Sayi(2000), Birim("kg")) : p \in Plakalar }

YukleSifirYakit == InsertYakit(SifirYakitSatirlari, MaxSifirYakit)

YukleSifirAgirlik == InsertAgirlik(SifirAgirlikSatirlari, MaxSifirAgirlik)

CallGetAracPerformansAnaliziSifir ==
    /\ result = BosSonuc
    /\ \E p \in Plakalar, hata \in BOOLEAN :
          result' = get_arac_performans_analizi(p, Yok, Yok, hata)
    /\ acik' = AcikKalan(get_arac_performans_analizi_kapatir, Yol(result'))
    /\ UNCHANGED <<yakit, agirlik, araclar, araclar_exists>>

NextSifir ==
    YukleSifirYakit \/ YukleSifirAgirlik \/ CallGetAracPerformansAnaliziSifir \/ Teslim

SpecSifir == Init /\ [][NextSifir]_vars

PerformansOranlari ==
    {"ort_yakit_sefer", "ort_tonaj_yuklenme", "yakit_km_orani",
     "km_basina_maliyet", "ton_basina_yakit", "verimlilik_skoru"}

PerformansBasarili ==
    result.op = "get_arac_performans_analizi" /\ result.status = "success"

(***************************************************************************)
(* C23: a successful get_arac_performans_analizi has yakit_km_orani,       *)
(* km_basina_maliyet and verimlilik_skoru 0 when toplam_km is 0, and       *)
(* ton_basina_yakit 0 when toplam_yakit is 0; no ratio it returns has a    *)
(* zero divisor, and the call fails only when a query fails.               *)
(***************************************************************************)
C23_SifirBolenSifirOran ==
    result.op = "get_arac_performans_analizi" =>
        /\ result.status = "error" => result.message = SorguHatasi
        /\ result.status = "success" =>
              /\ result.toplam_km = 0 =>
                    /\ result.yakit_km_orani = Sifir
                    /\ result.km_basina_maliyet = Sifir
                    /\ result.verimlilik_skoru = Sifir
              /\ result.toplam_yakit = 0 => result.ton_basina_yakit = Sifir
              /\ \A f \in PerformansOranlari : result[f][2] > 0

C23_Witness ==
    /\ PerformansBasarili
    /\ result.toplam_km = 0
    /\ result.toplam_yakit > 0
    /\ result.toplam_maliyet > 0
    /\ result.yakit_km_orani = Sifir
    /\ result.km_basina_maliyet = Sifir

(***************************************************************************)
(* The five aggregations next to the writers of the three tables.          *)
(***************************************************************************)
NextSaltOkunur ==
    \/ YukleHataYakit
    \/ YukleSifirAgirlik
    \/ KargoAraciEkle
    \/ CallHesaplaGercekKmHata
    \/ CallMuhasebeHata
    \/ CallPerformansHata
    \/ CallKarsilastirHata
    \/ CallAnalyze
    \/ Teslim

SpecSaltOkunur == Init /\ [][NextSaltOkunur]_vars

ToplamaIslemleri ==
    {"hesapla_gercek_km", "get_muhasebe_data", "get_arac_performans_analizi",
     "api_performans_karsilastir", "analyze"}

(***************************************************************************)
(* C24: hesapla_gercek_km, get_muhasebe_data, get_arac_performans_analizi, *)
(* api_performans_karsilastir and analyze are read-only: a step in which   *)
(* one of them answers, with success or with an error, leaves yakit,       *)
(* agirlik and araclar as they were.                                       *)
(***************************************************************************)
C24_ToplamalarSaltOkunur ==
    [][ (result = BosSonuc /\ result' # BosSonuc /\ result'.op \in ToplamaIslemleri)
          => UNCHANGED <<yakit, agirlik, araclar, araclar_exists>> ]_vars

C24_Witness ==
    /\ result.op \in ToplamaIslemleri
    /\ result.status = "error"
    /\ Len(yakit) = MaxHataYakit
    /\ Len(agirlik) > 0
    /\ araclar # {}

(***************************************************************************)
(* C25: the plaka_bazli list of a successful get_muhasebe_data is in       *)
(* non-increasing net_kar order (each entry's net_kar is at least the next *)
(* one's) and names every plate at most once.                              *)
(***************************************************************************)
C25_NetKaraGoreAzalan ==
    MuhasebeBasarili =>
        LET pb == result.plaka_bazli
        IN  /\ \A i \in 1..(Len(pb) - 1) : pb[i].net_kar >= pb[i + 1].net_kar
            /\ \A i, j \in 1..Len(pb) : pb[i].plaka = pb[j].plaka => i = j

C25_Witness ==
    /\ MuhasebeBasarili
    /\ Len(result.plaka_bazli) = 2
    /\ result.plaka_bazli[1].net_kar > 0
    /\ result.plaka_bazli[2].net_kar < 0
    /\ result.plaka_bazli[1].gider = 0
    /\ Cardinality({i \in 1..Len(yakit) : yakit[i].plaka = result.plaka_bazli[2].plaka}) = 2

(***************************************************************************)
(* analyze over fuel rows with different amounts, some of them NULL, zero  *)
(* or negative.                                                            *)
(***************************************************************************)
SiraYakitSatirlari ==
    { YakitSatiri(p, 1, Sayi(1), miktar, Sayi(4)) :
        p \in Plakalar, miktar \in {Null, Sayi(0 - 1), Sayi(0), Sayi(1), Sayi(2)} }

YukleSiraYakit == InsertYakit(SiraYakitSatirlari, MaxSiraYakit)

CallAnalyzeSira ==
    /\ result = BosSonuc
    /\ \E dahil_taseron \in BOOLEAN :
          result' = analyze(Yok, Yok, dahil_taseron, HataYok)
    /\ acik' = analyze_acik(result')
    /\ UNCHANGED <<yakit, agirlik, araclar, araclar_exists>>

NextSira == YukleSiraYakit \/ CallAnalyzeSira \/ Teslim

SpecSira == Init /\ [][NextSira]_vars

PozitifYakitlar(p) ==
    { i \in 1..Len(yakit) :
        /\ yakit[i].plaka = p
        /\ yakit[i].yakit_miktari.t = "num"
        /\ yakit[i].yakit_miktari.v > 0 }

(***************************************************************************)
(* C26: the tahminler list of analyze is in non-increasing toplam_yakit    *)
(* order, names every plate at most once, and every entry's toplam_yakit   *)
(* is the sum of the plate's positive fuel amounts and is greater than 0.  *)
(***************************************************************************)
C26_ToplamYakitaGoreAzalan ==
    AnalizBasarili =>
        LET t == result.tahminler
        IN  /\ \A i \in 1..(Len(t) - 1) : t[i].toplam_yakit >= t[i + 1].toplam_yakit
            /\ \A i, j \in 1..Len(t) : t[i].plaka = t[j].plaka => i = j
            /\ \A i \in 1..Len(t) :
                  /\ t[i].toplam_yakit > 0
                  /\ t[i].toplam_yakit =
                        IndisToplami(yakit, PozitifYakitlar(t[i].plaka), "yakit_miktari")

C26_Witness ==
    /\ AnalizBasarili
    /\ Len(yakit) = 3
    /\ yakit[1].plaka # yakit[2].plaka
    /\ yakit[3].plaka = yakit[2].plaka
    /\ yakit[1].yakit_miktari = Sayi(2)
    /\ yakit[2].yakit_miktari = Sayi(2)
    /\ yakit[3].yakit_miktari = Sayi(1)
    /\ Len(result.tahminler) = 2
    /\ result.tahminler[1].plaka = yakit[2].plaka
    /\ result.tahminler[1].toplam_yakit = 3

(***************************************************************************)
(* Accounting over rows of two days, called with no bound, one bound or    *)
(* both bounds of the date range.                                          *)
(***************************************************************************)
SinirYakitSatirlari ==
    { YakitSatiri(p, t, Sayi(1), Sayi(1), Sayi(3)) : p \in Plakalar, t \in Tarihler }

SinirAgirlikSatirlari ==
    { AgirlikSatiri(p, t, Sayi(2), Birim("kg")) : p \in Plakalar, t \in Tarihler }

YukleSinirYakit == InsertYakit(SinirYakitSatirlari, MaxSinirYakit)

YukleSinirAgirlik == InsertAgirlik(SinirAgirlikSatirlari, MaxSinirAgirlik)

CallGetMuhasebeDataSinir ==
    /\ result = BosSonuc
    /\ \E bas \in {Yok, <<2>>}, bit \in {Yok, <<1>>, <<2>>} :
          result' = get_muhasebe_data(bas, bit, Yok, FALSE)
    /\ acik' = AcikKalan(get_muhasebe_data_kapatir, Yol(result'))
    /\ UNCHANGED <<yakit, agirlik, araclar, araclar_exists>>

NextSinir ==
    \/ YukleSinirYakit
    \/ YukleSinirAgirlik
    \/ KargoAraciEkle
    \/ CallGetMuhasebeDataSinir
    \/ Teslim

SpecSinir == Init /\ [][NextSinir]_vars

TekSinir(bas, bit) == (bas = Yok) # (bit = Yok)

(***************************************************************************)
(* C28: get_muhasebe_data called with exactly one bound of the date range  *)
(* answers what the same call with no date range answers; a range with     *)
(* both bounds restricts the rows to the dates inside it.                  *)
(***************************************************************************)
C28_TekSinirYokSayilir ==
    MuhasebeBasarili =>
        /\ TekSinir(result.baslangic, result.bitis) =>
              [result EXCEPT !.baslangic = Yok, !.bitis = Yok]
                  = get_muhasebe_data(Yok, Yok, result.plaka, FALSE)
        /\ IkisiDeVar(result.baslangic, result.bitis) =>
              \A i \in 1..Len(result.plaka_bazli) :
                  LET e == result.plaka_bazli[i]
                      Aralikta(t) == result.baslangic[1] <= t /\ t <= result.bitis[1]
                  IN  /\ e.gider = 10 * IndisToplami(yakit,
                              { j \in 1..Len(yakit) :
                                  yakit[j].plaka = e.plaka /\ Aralikta(yakit[j].islem_tarihi) },
                              "satir_tutari")
                      /\ e.gelir = 5 * IndisToplami(agirlik,
                              { j \in 1..Len(agirlik) :
                                  agirlik[j].plaka = e.plaka /\ Aralikta(agirlik[j].tarih) },
                              "net_agirlik")

C28_Witness ==
    /\ MuhasebeBasarili
    /\ result.baslangic = <<2>>
    /\ result.bitis = Yok
    /\ Len(yakit) = 2
    /\ yakit[1].islem_tarihi = 1
    /\ yakit[2].islem_tarihi = 2
    /\ yakit[1].plaka = yakit[2].plaka
    /\ Len(result.plaka_bazli) = 1
    /\ result.plaka_bazli[1].gider = 60

InsertSonuclari == {"created", "rejected", "raise"}

JsonHatasi == "Object of type Timestamp is not JSON serializable"

YuklemeKayitlari(n) ==
    [k \in 1..n |-> YakitSatiri(OrnekPlaka, 1, Sayi(k), Sayi(1), Sayi(3))]

BatchSayisi(n) == (n + batch_size - 1) \div batch_size

InsertBatch(tablo, batch, sonuc) == IF sonuc = "created" THEN tablo \o batch ELSE tablo

RECURSIVE VeriYukleDongu(_, _, _, _)
VeriYukleDongu(records, i, d, sonuclar) ==
    IF i > Len(records) THEN d
    ELSE LET son == IF i + batch_size - 1 < Len(records)
                    THEN i + batch_size - 1 ELSE Len(records)
             batch == SubSeq(records, i, son)
             sonuc == sonuclar[Len(d.denemeler) + 1]
             denemeler == Append(d.denemeler,
                                 [bas |-> i, boyut |-> Len(batch), sonuc |-> sonuc])
         IN  IF sonuc = "raise"
             THEN [d EXCEPT !.denemeler = denemeler, !.hata = TRUE]
             ELSE VeriYukleDongu(records, i + batch_size,
                      [tablo |-> InsertBatch(d.tablo, batch, sonuc),
                       total_uploaded |-> IF sonuc = "created"
                                          THEN d.total_uploaded + Len(batch)
                                          ELSE d.total_uploaded,
                       denemeler |-> denemeler,
                       hata |-> FALSE],
                      sonuclar)

api_veri_yukle ==
    /\ result = BosSonuc
    /\ Len(yakit) < MaxKayit
    /\ \E dosya \in {"missing", "unnamed", "ok"}, n \in 0..MaxKayit,
          sonuclar \in [1..BatchSayisi(MaxKayit) -> InsertSonuclari] :
          IF dosya # "ok"
          THEN /\ yakit' = yakit
               /\ result' = HataSonucu("api_veri_yukle", dosya)
          ELSE LET d == VeriYukleDongu(YuklemeKayitlari(n), 1,
                                       [tablo |-> yakit, total_uploaded |-> 0,
                                        denemeler |-> <<>>, hata |-> FALSE],
                                       sonuclar)
               IN  /\ yakit' = d.tablo
                   /\ result' =
                         IF d.hata
                         THEN [op |-> "api_veri_yukle", status |-> "error",
                               message |-> JsonHatasi, kayit_sayisi |-> n,
                               denemeler |-> d.denemeler]
                         ELSE [op |-> "api_veri_yukle", status |-> "success",
                               uploaded |-> d.total_uploaded, kayit_sayisi |-> n,
                               denemeler |-> d.denemeler]
    /\ acik' = 0
    /\ UNCHANGED <<agirlik, araclar, araclar_exists>>

NextYukle == api_veri_yukle \/ Teslim

SpecYukle == Init /\ [][NextYukle]_vars

DosyaOkundu == result.op = "api_veri_yukle" /\ "denemeler" \in DOMAIN result

RECURSIVE BoyutToplami(_, _)
BoyutToplami(d, K) ==
    IF K = {} THEN 0
    ELSE LET k == CHOOSE j \in K : TRUE
         IN  d[k].boyut + BoyutToplami(d, K \ {k})

(***************************************************************************)
(* C30: api_veri_yukle splits the records into consecutive batches of at   *)
(* most batch_size, attempts every batch once and in order whatever became *)
(* of the earlier ones, answers success, and reports as uploaded the total *)
(* size of the batches whose insert succeeded, between 0 and the number of *)
(* records.                                                                *)
(***************************************************************************)
C30_HerBatchBirKezDenenir ==
    DosyaOkundu =>
        LET n == result.kayit_sayisi
            d == result.denemeler
        IN  /\ Len(d) = BatchSayisi(n)
            /\ \A k \in 1..Len(d) :
                  /\ d[k].bas = (k - 1) * batch_size + 1
                  /\ d[k].boyut <= batch_size
                  /\ d[k].boyut = IF k * batch_size <= n THEN batch_size
                                  ELSE n - (k - 1) * batch_size
            /\ result.status = "success"
            /\ result.uploaded =
                  BoyutToplami(d, {k \in 1..Len(d) : d[k].sonuc = "created"})
            /\ 0 <= result.uploaded /\ result.uploaded <= n

=============================================================================
